---------------------------- MODULE Spec2Model ----------------------------
(***************************************************************************)
(* A model of the polymarket trading bot: the Binance probability oracle   *)
(* (src/src/binance_price_oracle.ts) and the bot that compares the oracle  *)
(* with the venue's mid prices and places bracket orders                   *)
(* (src/src/auto_trading_bot_v2.ts).                                       *)
(*                                                                         *)
(* Numbers.  TLC has 32-bit integers and no reals, so JavaScript numbers   *)
(* are modelled in fixed point:                                            *)
(*   - wall-clock time and candle times: integer milliseconds;             *)
(*   - BTC prices: integer dollars;                                        *)
(*   - probabilities and venue prices: integer multiples of 1/ONE          *)
(*     (ONE = 100000, so 0.015 is 1500);                                   *)
(*   - log returns and volatility: multiples of 1/S6 (10^-6);              *)
(*   - the normal CDF's intermediate values: multiples of 1/Q4 (10^-4).    *)
(* The IEEE values NaN and +Infinity, which the oracle's arithmetic can    *)
(* produce, are the explicit values NaN and INF.                           *)
(***************************************************************************)
EXTENDS Integers, Sequences, FiniteSets, TLC

(***************************************************************************)
(* Fixed-point scales and the IEEE special values                          *)
(***************************************************************************)
ONE == 1000 * 100
S6  == 1000 * 1000
Q4  == 100 * 100
\* NaN and INF are outside every range a finite model value can take.
INF == 2000 * 1000 * 1000
NaN == 0 - INF
\* the largest finite value of the fixed-point arithmetic (it saturates here)
FxCap == INF - 1

Abs(x) == IF x < 0 THEN 0 - x ELSE x
Min2(a, b) == IF a < b THEN a ELSE b
Max2(a, b) == IF a > b THEN a ELSE b

\* a * b for naturals, saturating at FxCap instead of overflowing
SatMul(a, b) ==
    IF a = 0 \/ b = 0 THEN 0
    ELSE IF a > FxCap \div b THEN FxCap ELSE a * b

\* floor(x * m * m / d) for naturals x, d > 0, m = 1000 or 100, without
\* overflowing 31 bits as long as x * m and d * m fit; saturating at FxCap
MulDiv2(x, m, d) ==
    LET q1 == (x * m) \div d
        r1 == (x * m) % d
    IN  IF q1 > FxCap \div m THEN FxCap
        ELSE q1 * m + (r1 * m) \div d

RECURSIVE ISqrt(_)
\* Math.sqrt on naturals: floor of the square root
ISqrt(n) ==
    IF n < 2 THEN n
    ELSE LET s == 2 * ISqrt(n \div 4)
         IN  IF (s + 1) * (s + 1) <= n THEN s + 1 ELSE s


(***************************************************************************)
(* The oracle's model parameters (binance_price_oracle.ts, lines 64-74)    *)
(***************************************************************************)
maxHistorySize == 300
\* 0.003, in 1/S6
BASE_HOURLY_VOLATILITY == 3 * (S6 \div 1000)
\* 0.01 and 0.99, in 1/ONE
MIN_PROBABILITY == ONE \div 100
MAX_PROBABILITY == 99 * (ONE \div 100)
\* calculateRecentVolatility needs this many samples (line 205) and this
\* many returns (line 215)
MinVolSamples == 10
MinVolReturns == 5
\* 3600000 ms, the hour of "updatesPerHour" (line 224)
MsPerHour == 3600 * 1000

(***************************************************************************)
(* Math.log(a / b) for prices a, b > 0, in 1/S6.                           *)
(* ln(a/b) = k ln 2 + 2 atanh(u), u = (a' - b') / (a' + b'), where the     *)
(* ratio a'/b' has been brought into [1, 2] by doubling.                   *)
(***************************************************************************)
Ln2 == 693147
RECURSIVE LnRatio(_, _)
LnRatio(a, b) ==
    IF a < b THEN 0 - LnRatio(b, a)
    ELSE IF a > 2 * b THEN Ln2 + LnRatio(a, 2 * b)
    ELSE LET u6  == MulDiv2(a - b, 1000, a + b)
             u4  == u6 \div 100
             usq == (u4 * u4) \div Q4
             t3  == (u6 * usq) \div Q4
             t5  == (t3 * usq) \div Q4
             t7  == (t5 * usq) \div Q4
         IN  2 * u6 + (2 * t3) \div 3 + (2 * t5) \div 5 + (2 * t7) \div 7

\* the sum of a sequence, by halves
RECURSIVE SumSeq(_)
SumSeq(s) ==
    IF s = <<>> THEN 0
    ELSE IF Len(s) = 1 THEN s[1]
    ELSE LET half == Len(s) \div 2
         IN  SumSeq(SubSeq(s, 1, half)) + SumSeq(SubSeq(s, half + 1, Len(s)))

\* the log returns of a history without a zero price (lines 209-213)
Returns(hist) ==
    [i \in 1..(Len(hist) - 1) |->
        LnRatio(hist[i + 1].price, hist[i].price)]

\* sqrt of the biased variance of the returns (lines 219-221), in 1/S6;
\* the squares are taken at 1/1000 when a deviation is too large for them
StdDev(rets) ==
    LET n    == Len(rets)
        mean == SumSeq(rets) \div n
        devs == [i \in 1..n |-> Abs(rets[i] - mean)]
        big  == \E i \in 1..n : devs[i] > 10000
        sq   == [i \in 1..n |->
                   IF big THEN (devs[i] \div 1000) * (devs[i] \div 1000)
                   ELSE devs[i] * devs[i]]
        root == ISqrt(SumSeq(sq) \div n)
    IN  IF big THEN 1000 * root ELSE root

(***************************************************************************)
(* calculateRecentVolatility (lines 204-228): the hourly volatility in     *)
(* 1/S6, or NaN or INF where the IEEE arithmetic of the source gives them: *)
(*  - a zero price in the history makes a return of Math.log infinite, the *)
(*    mean infinite or NaN, and the variance NaN (Infinity - Infinity);    *)
(*  - a history whose samples all carry the same timestamp has             *)
(*    timespanMs = 0 and updatesPerHour = Infinity: hourlyVolatility is    *)
(*    Infinity when stdDev > 0 and NaN (0 * Infinity) when stdDev = 0;     *)
(*  - Math.max(NaN, base) is NaN.                                          *)
(***************************************************************************)
calculateRecentVolatility(hist) ==
    IF Len(hist) < MinVolSamples THEN BASE_HOURLY_VOLATILITY
    ELSE IF Len(hist) - 1 < MinVolReturns THEN BASE_HOURLY_VOLATILITY
    ELSE IF \E i \in 1..Len(hist) : hist[i].price = 0 THEN NaN
    ELSE
      LET stdDev     == StdDev(Returns(hist))
          timespanMs == hist[Len(hist)].time - hist[1].time
      IN  IF timespanMs = 0
          THEN (IF stdDev = 0 THEN NaN ELSE INF)
          ELSE
            LET updatesPerHour == (MsPerHour * Len(hist)) \div timespanMs
                \* 10 * sqrt(updatesPerHour)
                root10 == IF updatesPerHour > 20000000
                          THEN 10 * ISqrt(updatesPerHour)
                          ELSE ISqrt(100 * updatesPerHour)
                hourlyVolatility == SatMul(stdDev, root10) \div 10
            IN  Max2(hourlyVolatility, BASE_HOURLY_VOLATILITY)


(***************************************************************************)
(* normalCDF (lines 292-307), on z in 1/Q4 (or NaN), result in 1/Q4.       *)
(* The coefficients are the source's, rounded to 1/Q4.  As in the source,  *)
(* y = 1 - poly(t) * t * exp(-x*x/2) and the result is                     *)
(* 0.5 * (1 + sign * (2y - 1)), that is y for x >= 0 and 1 - y for x < 0.  *)
(***************************************************************************)
CdfA1 == 2548
CdfA2 == 0 - 2845
CdfA3 == 14214
CdfA4 == 0 - 14532
CdfA5 == 10614
CdfP  == 3276
\* |z| saturates at 40: Math.exp(-800) is 0 in IEEE doubles
ZCap == 40 * Q4

\* Math.exp(-h) for h >= 0 in 1/Q4: 2^-k * exp(-r), h = k ln 2 + r
RECURSIVE Halve(_, _)
Halve(v, k) == IF k = 0 \/ v = 0 THEN v ELSE Halve(v \div 2, k - 1)
ExpNeg(h) ==
    LET ln2 == Ln2 \div 100
        k   == h \div ln2
        r   == h % ln2
        t1  == r
        t2  == (t1 * r) \div (2 * Q4)
        t3  == (t2 * r) \div (3 * Q4)
        t4  == (t3 * r) \div (4 * Q4)
        t5  == (t4 * r) \div (5 * Q4)
        t6  == (t5 * r) \div (6 * Q4)
    IN  Halve(Q4 - t1 + t2 - t3 + t4 - t5 + t6, k)

normalCDF(z) ==
    IF z = NaN THEN NaN
    ELSE
      LET sign == IF z < 0 THEN 0 - 1 ELSE 1
          x    == Abs(z)
          t    == (Q4 * Q4) \div (Q4 + (CdfP * x) \div Q4)
          h1   == (CdfA5 * t) \div Q4 + CdfA4
          h2   == (h1 * t) \div Q4 + CdfA3
          h3   == (h2 * t) \div Q4 + CdfA2
          h4   == (h3 * t) \div Q4 + CdfA1
          poly == (h4 * t) \div Q4
          e    == IF x > 45000 THEN 0 ELSE ExpNeg(((x * x) \div Q4) \div 2)
          y    == Q4 - (poly * e) \div Q4
      IN  IF sign = 1 THEN y ELSE Q4 - y

(***************************************************************************)
(* calculateProbability (lines 233-287) on the oracle's fields and the     *)
(* wall clock.  Of the snapshot it returns the fields the bot and the      *)
(* claims read; priceChangePercent, timeRemainingPercent and confidence    *)
(* feed only the log lines and are left out.                               *)
(***************************************************************************)
\* timeFractionRemaining > 0.98 (line 254); a zero hourDuration divides to
\* Infinity (or to NaN when nothing remains)
\* variant: the remaining percentage (0..100) compared where the fraction is
TimeFractionAsPercent(rem, dur) ==
    IF dur > 0 THEN rem > 98 * dur
    ELSE IF dur = 0 THEN rem > 0
    ELSE FALSE

TimeFractionAbove98(rem, dur) ==
    IF dur > 0 THEN rem * 100 > 98 * dur
    ELSE IF dur = 0 THEN rem > 0
    ELSE FALSE

\* Math.sqrt(timeFractionRemaining) in 1/Q4, for 0 < rem and 0 < dur
SqrtTimeFraction(rem, dur) == ISqrt(SatMul(MulDiv2(rem, 100, dur), Q4))

\* volatility * openPrice * sqrt(fraction) in 1/Q4 dollars (line 258)
ExpectedStdDev(vol, open, rem, dur) ==
    IF vol = NaN \/ dur < 0 THEN NaN
    ELSE IF vol = INF \/ dur = 0 THEN INF
    ELSE LET vo   == SatMul(vol \div 100, open)
             root == SqrtTimeFraction(rem, dur)
         IN  IF vo <= 200000 THEN (vo * root) \div Q4
             ELSE IF vo <= 20000000 THEN ((vo \div 100) * root) \div 100
             ELSE SatMul(vo \div Q4, root)

\* priceChange / expectedRemainingStdDev in 1/Q4 (line 263), |z| <= ZCap
ZScore(priceChange, sd) ==
    IF sd = NaN THEN NaN
    ELSE IF sd = INF THEN 0
    ELSE
      LET a   == Abs(priceChange)
          mag == IF SatMul(a, Q4) >= SatMul(40, sd) THEN ZCap
                 ELSE IF sd > 200000 THEN (a * Q4) \div (sd \div Q4)
                 ELSE MulDiv2(a, Q4, sd)
      IN  IF priceChange < 0 THEN 0 - Min2(mag, ZCap) ELSE Min2(mag, ZCap)

\* probUp before the clamp (lines 250-266), in 1/ONE or NaN
RawProbUp(cur, open, klineStart, klineClose, hist, nowMs) ==
    LET hourDuration    == klineClose - klineStart
        timeRemainingMs == Max2(0, klineClose - nowMs)
        priceChange     == cur - open
    IN  IF open = 0 \/ cur = 0 THEN ONE \div 2
        ELSE IF timeRemainingMs <= 0
             THEN (IF priceChange > 0 THEN ONE ELSE 0)
        ELSE IF TimeFractionAbove98(timeRemainingMs, hourDuration)
             THEN ONE \div 2
        ELSE
          LET volatility == calculateRecentVolatility(hist)
              sd == ExpectedStdDev(volatility, open,
                                   timeRemainingMs, hourDuration)
          IN  IF sd # NaN /\ sd < Q4 \div 100
              THEN (IF priceChange > 0 THEN MAX_PROBABILITY
                    ELSE MIN_PROBABILITY)
              ELSE LET c == normalCDF(ZScore(priceChange, sd))
                   IN  IF c = NaN THEN NaN ELSE c * (ONE \div Q4)

\* Math.max(MIN, Math.min(MAX, probUp)) (line 268): NaN stays NaN
\* variant: the raw probability passed on as it is
ClampSkipped(p) == p

ClampProbability(p) ==
    IF p = NaN THEN NaN
    ELSE Max2(MIN_PROBABILITY, Min2(MAX_PROBABILITY, p))

\* 1 - probUp (line 269)
Complement(p) == IF p = NaN THEN NaN ELSE ONE - p

calculateProbability(cur, open, klineStart, klineClose, hist, nowMs) ==
    LET probUp == ClampProbability(
                      RawProbUp(cur, open, klineStart, klineClose,
                                hist, nowMs))
    IN  [ probUp          |-> probUp,
          probDown        |-> Complement(probUp),
          currentPrice    |-> cur,
          openPrice       |-> open,
          priceChange     |-> cur - open,
          timeRemainingMs |-> Max2(0, klineClose - nowMs) ]


(***************************************************************************)
(* The bot's configuration (auto_trading_bot_v2.ts, lines 59, 86-91).      *)
(* Prices are in 1/ONE, balances in dollars, durations in ms.              *)
(***************************************************************************)
\* PRICE_DIFFERENCE_THRESHOLD '0.015', STOP_LOSS_AMOUNT '0.005',
\* TAKE_PROFIT_AMOUNT '0.01'
priceThreshold   == 15 * (ONE \div 1000)
stopLossAmount   == 5 * (ONE \div 1000)
takeProfitAmount == 10 * (ONE \div 1000)
\* the environment's TRADE_COOLDOWN in seconds.  The default is '30'; the
\* model runs the bot with TRADE_COOLDOWN=4, so that a cooldown both blocks
\* and ends within the clock's bound.
TRADE_COOLDOWN == 4
tradeCooldown  == TRADE_COOLDOWN * 1000
\* MINIMUM_BALANCE '500.0', in dollars
minimumBalance == 500
\* DEFAULT_TRADE_AMOUNT: '5.0' by default; 0.40 is a configuration in
\* which a share can cost more than the budget.  In 1/ONE dollars.
TradeAmounts == {5 * ONE, (2 * ONE) \div 5}
\* the oracle's reconnectInterval (binance_price_oracle.ts, line 51) and the
\* delay of the bot's setTimeout(connect, 5000) (line 333)
reconnectInterval   == 5000
PolymarketReconnect == 5000
\* setTimeout(loop, 1000) (line 409), the sleep between the entry order and
\* the bracket orders (line 502), waitForInitialData (lines 174, 196)
LoopInterval   == 1000
EntrySettleMs  == 2000
balanceCheckInterval == 60000
maxWait        == 15000
WaitPollMs     == 1000
\* the oracle's connection timeout (binance_price_oracle.ts, line 152)
ConnectTimeoutMs == 10000

(***************************************************************************)
(* Bounds of the model                                                     *)
(***************************************************************************)
\* the wall clock starts here, two hours into the epoch, and advances in
\* steps of the loop's interval, the finest delay of the program
StartNow == 7200 * 1000
ClockStep == LoopInterval
\* the trading specification: clock steps, oracle ticks, venue messages
MaxClockSteps == 5
MaxTicks == 1
MaxMessages == 1
\* the gate specification: clock steps and oracle ticks
MaxGateClockSteps == 3
MaxGateTicks == 2
\* the oracle specification: the samples already in the history, the
\* ticks that follow, clock steps
Warm == 9
MaxOracleTicks == 2
MaxOracleClockSteps == 2
MaxOracleOthers == 1
\* the history specification: ticks after the history that is one sample
\* short of full, clock steps
MaxHistoryTicks == 3
MaxHistoryClockSteps == 2
\* the trade specification: venue messages, clock steps
MaxTradeMessages == 2
MaxTradeClockSteps == 6
\* the restart specification: clock steps
MaxRestartClockSteps == 5
\* the price band specification: ticks, venue messages, clock steps
MaxBandTicks == 1
MaxBandMessages == 1
MaxBandClockSteps == 3
\* monitoring callbacks suspended in checkBalances at the same time
MaxMonitorChecks == 1
\* the lifecycle specification: clock steps, WebSocket objects created
MaxLifeClockSteps == 21
MaxSockets == 4

(***************************************************************************)
(* State                                                                   *)
(***************************************************************************)
VARIABLES
    now,              \* Date.now(), ms
    \* --- BinancePriceOracle
    oracleIsRunning,  \* BinancePriceOracle.isRunning
    ws,               \* BinancePriceOracle.ws: a socket id, or 0 for null
    candle,           \* currentPrice, openPrice, highPrice, lowPrice,
                      \* klineStartTime, klineCloseTime
    priceHistory,     \* sequence of [price, time]
    emitted,          \* what the oracle's 'message' handler has done: messages
                      \* handled and the last of them, 'probability' events
                      \* emitted (count) and the last snapshot
    \* --- AutoTradingBotV2
    isRunning,
    tokenIdUp, tokenIdDown,   \* "null" until initializeMarket
    handlers,         \* setupOracleHandlers has registered the listeners
    oraclePrices,     \* [UP, DOWN]
    polymarketPrices, \* token id -> mid price; ABSENT for a missing key
    messageCount,     \* _messageCount
    activeTrades,
    lastTradeTime,
    tradeAmount,
    polymarketWs,     \* a socket id, or 0 for null
    \* --- the runtime: sockets, timers, suspended async functions
    sockets,          \* id -> [feed, state]
    timers,           \* pending reconnect timers: sequence of [feed, due]
    startPc,          \* where start() is suspended
    waited,           \* waitForInitialData's local
    waitDue,          \* the due time of its pending sleep or connect timeout
    awaitSock,        \* the socket whose 'open' resolves the pending connect()
    loopPc,           \* where the trading loop is suspended
    loopDue,          \* the due time of the loop's timer or sleep
    exec,             \* the latest executeTrade call: its number, its
                      \* opportunity, its locals and how it ended
    lastCheck,        \* the latest checkTradeOpportunity call: the balance
                      \* it read and what it returned
    orders,           \* the venue: every order the bot has posted
    stopped,          \* stop() has been called
    lastBalanceCheck, \* when the monitoring timer last checked the balance
    monitorChecks     \* the monitoring callbacks suspended in checkBalances:
                      \* the Date.now() each of them read

oracleVars == <<oracleIsRunning, ws, candle, priceHistory, emitted>>
botData    == <<tokenIdUp, tokenIdDown, handlers, oraclePrices,
                polymarketPrices, messageCount>>
tradeVars  == <<activeTrades, lastTradeTime, orders, exec, lastCheck>>
loopVars   == <<loopPc, loopDue>>
startVars  == <<startPc, waited, waitDue, awaitSock>>
netVars    == <<sockets, timers, polymarketWs>>
monitorVars == <<lastBalanceCheck, monitorChecks>>
vars == <<now, oracleVars, isRunning, botData, tradeVars, tradeAmount,
          loopVars, startVars, netVars, stopped, monitorVars>>

\* a missing Map key, an empty bids or asks array
ABSENT == 0 - 1
TokenUp   == "tokUp"
TokenDown == "tokDown"
TokenOther == "tokOther"

\* executeTrade has not been called yet; no evaluation has been made yet
NoOpportunity == [ tokenType |-> "none", tokenId |-> "null",
                   oraclePrice |-> 0, polymarketPrice |-> 0,
                   difference |-> 0 ]
NoExec  == [ calls |-> 0, active |-> FALSE, start |-> 0,
             opportunity |-> NoOpportunity, buyPrice |-> 0, shares |-> 0,
             takeProfitPrice |-> 0, stopLossPrice |-> 0,
             buyOrderId |-> 0, tpOrderId |-> 0, outcome |-> "none" ]
NoCheck == [ outcome |-> "never", usdc |-> ABSENT ]

Init ==
    /\ now = StartNow
    /\ oracleIsRunning = FALSE
    /\ ws = 0
    /\ candle = [ currentPrice |-> 0, openPrice |-> 0, highPrice |-> 0,
                  lowPrice |-> 0, klineStartTime |-> 0, klineCloseTime |-> 0 ]
    /\ priceHistory = <<>>
    /\ emitted = [ count |-> 0, messages |-> 0 ]
    /\ isRunning = FALSE
    /\ tokenIdUp = "null"
    /\ tokenIdDown = "null"
    /\ handlers = FALSE
    /\ oraclePrices = [ UP |-> 0, DOWN |-> 0 ]
    /\ polymarketPrices = [ k \in {TokenUp, TokenDown} |-> ABSENT ]
    /\ messageCount = 0
    /\ activeTrades = <<>>
    /\ lastTradeTime = 0
    /\ tradeAmount \in TradeAmounts
    /\ polymarketWs = 0
    /\ sockets = <<>>
    /\ timers = <<>>
    /\ startPc = "new"
    /\ waited = 0
    /\ waitDue = 0
    /\ awaitSock = 0
    /\ loopPc = "off"
    /\ loopDue = 0
    /\ exec = NoExec
    /\ lastCheck = NoCheck
    /\ orders = <<>>
    /\ stopped = FALSE
    /\ lastBalanceCheck = 0
    /\ monitorChecks = {}


(***************************************************************************)
(* The oracle: processKlineMessage, hasData, getCurrentProbability         *)
(***************************************************************************)
\* hasData() with >= 0 for > 0: a gate that lets an unknown price through
hasDataNonNegative == candle.currentPrice >= 0 /\ candle.openPrice >= 0

\* hasData() that stays true once a candle update has been seen
hasDataSeen == emitted.count > 0

\* hasData() (lines 322-324)
hasData == candle.currentPrice > 0 /\ candle.openPrice > 0

\* variant: the oldest sample dropped as soon as the size is reached
PushHistoryAtSize(hist, sample) ==
    LET pushed == Append(hist, sample)
    IN  IF Len(pushed) >= maxHistorySize THEN Tail(pushed) ELSE pushed

\* priceHistory.push(...) and the shift() past maxHistorySize (lines 174-177)
PushHistory(hist, sample) ==
    LET pushed == Append(hist, sample)
    IN  IF Len(pushed) > maxHistorySize THEN Tail(pushed) ELSE pushed

\* a socket on which the 'message' handler can still run
Receiving(id, feed) ==
    /\ id \in DOMAIN sockets
    /\ sockets[id].feed = feed
    /\ sockets[id].state \in {"open", "closing"}

\* processKlineMessage (lines 159-181) on a kline message k, and the bot's
\* 'probability' listener (lines 159-162), which runs inside emit()
OracleTick(k) ==
    /\ \E id \in DOMAIN sockets : Receiving(id, "binance")
    /\ LET c2 == [ currentPrice   |-> k.c, openPrice      |-> k.o,
                   highPrice      |-> k.h, lowPrice       |-> k.l,
                   klineStartTime |-> k.t, klineCloseTime |-> k.T ]
           h2 == PushHistory(priceHistory, [ price |-> k.c, time |-> now ])
           probability ==
               calculateProbability(c2.currentPrice, c2.openPrice,
                                    c2.klineStartTime, c2.klineCloseTime,
                                    h2, now)
       IN  /\ candle' = c2
           /\ priceHistory' = h2
           /\ emitted' = [ count |-> emitted.count + 1,
                           snapshot |-> probability,
                           messages |-> emitted.messages + 1,
                           message |-> k ]
           /\ oraclePrices' =
                 IF handlers
                 THEN [ UP |-> probability.probUp,
                        DOWN |-> probability.probDown ]
                 ELSE oraclePrices
    /\ UNCHANGED <<now, oracleIsRunning, ws, isRunning, tokenIdUp,
                   tokenIdDown, handlers, polymarketPrices, messageCount,
                   tradeVars, tradeAmount, loopVars, startVars, netVars,
                   stopped, monitorVars>>

\* variant: any message that carries candle fields taken for a candle update
HasPayload(message) == "c" \in DOMAIN message

\* message.e !== 'kline' (line 160)
IsKline(message) == message.e = "kline"

\* the oracle's 'message' handler (lines 124-131) on a parsed message:
\* processKlineMessage returns at once unless the message is a kline event
OracleMessage(message) ==
    IF IsKline(message)
    THEN OracleTick(message)
    ELSE /\ \E id \in DOMAIN sockets : Receiving(id, "binance")
         /\ emitted' = [ message |-> message ] @@
                            [ emitted EXCEPT !.messages = @ + 1 ]
         /\ UNCHANGED <<now, oracleIsRunning, ws, candle, priceHistory,
                        isRunning, botData, tradeVars, tradeAmount, loopVars,
                        startVars, netVars, stopped, monitorVars>>

(***************************************************************************)
(* The market price tracker: processPolymarketMessage (lines 342-392).     *)
(* A message is [shape, items]; an item is [asset_id, bid, ask] with the   *)
(* first bid and ask prices in 1/ONE, or ABSENT for an empty or missing    *)
(* side.                                                                   *)
(***************************************************************************)
Tracked(asset) == asset # "null" /\ (asset = tokenIdUp \/ asset = tokenIdDown)

\* formats 1 and 3 (lines 351-357, 384-390): both arrays non-empty
BookItem(prices, item) ==
    IF Tracked(item.asset_id) /\ item.bid # ABSENT /\ item.ask # ABSENT
    THEN [prices EXCEPT ![item.asset_id] = (item.bid + item.ask) \div 2]
    ELSE prices

\* format 2 (lines 369-377): best_bid || '0', and both must be positive
ChangeItem(prices, item) ==
    LET bid == IF item.bid = ABSENT THEN 0 ELSE item.bid
        ask == IF item.ask = ABSENT THEN 0 ELSE item.ask
    IN  IF Tracked(item.asset_id) /\ bid > 0 /\ ask > 0
        THEN [prices EXCEPT ![item.asset_id] = (bid + ask) \div 2]
        ELSE prices

RECURSIVE BookItems(_, _)
BookItems(prices, items) ==
    IF items = <<>> THEN prices
    ELSE BookItems(BookItem(prices, Head(items)), Tail(items))

RECURSIVE ChangeItems(_, _)
ChangeItems(prices, items) ==
    IF items = <<>> THEN prices
    ELSE ChangeItems(ChangeItem(prices, Head(items)), Tail(items))

processPolymarketMessage(prices, msg) ==
    IF msg.shape = "array" THEN BookItems(prices, msg.items)
    ELSE IF msg.shape = "price_changes" THEN ChangeItems(prices, msg.items)
    ELSE IF msg.shape = "book" THEN BookItem(prices, msg.items[1])
    ELSE prices

VenueMessage(msg) ==
    /\ \E id \in DOMAIN sockets : Receiving(id, "polymarket")
    /\ messageCount' = messageCount + 1
    /\ polymarketPrices' = processPolymarketMessage(polymarketPrices, msg)
    /\ UNCHANGED <<now, oracleVars, isRunning, tokenIdUp, tokenIdDown,
                   handlers, oraclePrices, tradeVars, tradeAmount, loopVars,
                   startVars, netVars, stopped, monitorVars>>

(***************************************************************************)
(* The wall clock                                                          *)
(***************************************************************************)
ClockAdvance(maxSteps) ==
    /\ now + ClockStep <= StartNow + maxSteps * ClockStep
    /\ now' = now + ClockStep
    /\ UNCHANGED <<oracleVars, isRunning, botData, tradeVars, tradeAmount,
                   loopVars, startVars, netVars, stopped, monitorVars>>


(***************************************************************************)
(* The opportunity detector: checkTradeOpportunity (lines 448-469)         *)
(***************************************************************************)
\* a cooldown that takes TRADE_COOLDOWN for milliseconds
CooldownInSeconds(nowMs, last) == TRADE_COOLDOWN - (nowMs - last) > 0

\* cooldownRemaining > 0 (lines 449-450)
CooldownActive(nowMs, last) == tradeCooldown - (nowMs - last) > 0

\* this.polymarketPrices.get(tokenId) || 0 (line 461)
MarketPrice(tokenId) ==
    IF polymarketPrices[tokenId] = ABSENT THEN 0 ELSE polymarketPrices[tokenId]

\* oraclePrice - marketPrice (line 462); NaN - x is NaN
Diff(oraclePrice, marketPrice) ==
    IF oraclePrice = NaN THEN NaN ELSE oraclePrice - marketPrice

\* the condition of line 464 with > for >=
QualifiesStrictly(oraclePrice, marketPrice) ==
    /\ oraclePrice # NaN
    /\ Diff(oraclePrice, marketPrice) > priceThreshold
    /\ oraclePrice > 0
    /\ marketPrice > 0

\* the condition of line 464; every comparison with NaN is false
Qualifies(oraclePrice, marketPrice) ==
    /\ oraclePrice # NaN
    /\ Diff(oraclePrice, marketPrice) >= priceThreshold
    /\ oraclePrice > 0
    /\ marketPrice > 0

TokenIdOf(tokenType) == IF tokenType = "UP" THEN tokenIdUp ELSE tokenIdDown

\* the scan in the other order
ScanOrderDownFirst == <<"DOWN", "UP">>

\* for (const tokenType of ['UP', 'DOWN']) (line 456)
ScanOrder == <<"UP", "DOWN">>

Opportunity(tokenType) ==
    [ tokenType       |-> tokenType,
      tokenId         |-> TokenIdOf(tokenType),
      oraclePrice     |-> oraclePrices[tokenType],
      polymarketPrice |-> MarketPrice(TokenIdOf(tokenType)),
      difference      |-> Diff(oraclePrices[tokenType],
                               MarketPrice(TokenIdOf(tokenType))) ]

SideMatches(tokenType) ==
    /\ TokenIdOf(tokenType) # "null"
    /\ Qualifies(oraclePrices[tokenType], MarketPrice(TokenIdOf(tokenType)))

\* the scan of lines 456-468: the first matching side, or "none"
Scan ==
    IF SideMatches(ScanOrder[1]) THEN ScanOrder[1]
    ELSE IF SideMatches(ScanOrder[2]) THEN ScanOrder[2]
    ELSE "none"

(***************************************************************************)
(* The trade executor: executeTrade (lines 471-543)                        *)
(***************************************************************************)
\* roundPrice (line 483): Math.round(p * 100) / 100
roundPrice(p) == ((p * 100 + ONE \div 2) \div ONE) * (ONE \div 100)

\* variant: a stop below the market price without the floor of 0.01
StopLossUnfloored(marketPrice) == roundPrice(marketPrice - stopLossAmount)

\* variant: an entry price with a buffer of 5 % instead of 1 %
BuyPriceFivePercent(marketPrice) == roundPrice((marketPrice * 105) \div 100)

\* lines 485, 504, 505
BuyPrice(marketPrice) == roundPrice((marketPrice * 101) \div 100)
TakeProfitPrice(marketPrice) ==
    roundPrice(Min2(marketPrice + takeProfitAmount, MAX_PROBABILITY))
StopLossPrice(marketPrice) ==
    roundPrice(Max2(marketPrice - stopLossAmount, MIN_PROBABILITY))

\* Math.floor(this.tradeAmount / buyPrice) (line 486); x / 0 is Infinity
Shares(amount, buyPrice) ==
    IF buyPrice = 0 THEN INF ELSE amount \div buyPrice

\* an executeTrade that leaves lastTradeTime alone
StampKept(nowMs, last) == last

\* this.lastTradeTime = Date.now() (line 479)
StampCooldown(nowMs, last) == nowMs

\* createAndPostOrder (lines 495, 509, 515): the order as the venue sees it;
\* call and role say which executeTrade call posted it, and as what
Order(call, role, tokenID, side, price, size) ==
    [ call |-> call, role |-> role, tokenID |-> tokenID, side |-> side,
      price |-> price, size |-> size, status |-> "pending" ]

\* a quantity test that lets a quantity of 0 through
TooSmallBelowZero(shares) == shares < 0

\* shares < 1 (line 488)
TooSmall(shares) == shares < 1

\* balances.usdc < this.minimumBalance (line 454)
BalanceTooLow(usdc) == usdc < minimumBalance

\* an executeTrade that goes on after a failed order
AfterOrderRegardless(role, ok) ==
    IF role = "entry" THEN "sleep"
    ELSE IF role = "tp" THEN "sl"
    ELSE "push"

\* where executeTrade goes when the await of an order returns (ok) or
\* throws: on to the next step, or into the catch of line 540
AfterOrder(role, ok) ==
    IF ~ok THEN "catch"
    ELSE IF role = "entry" THEN "sleep"
    ELSE IF role = "tp" THEN "sl"
    ELSE "push"

\* variant: a Trade whose target and stop prices have changed places
PositionSwapped(e, slOrderId) ==
    [ tokenType         |-> e.opportunity.tokenType,
      tokenId           |-> e.opportunity.tokenId,
      buyOrderId        |-> e.buyOrderId,
      takeProfitOrderId |-> e.tpOrderId,
      stopLossOrderId   |-> slOrderId,
      buyPrice          |-> e.buyPrice,
      targetPrice       |-> e.stopLossPrice,
      stopPrice         |-> e.takeProfitPrice,
      amount            |-> tradeAmount,
      timestamp         |-> now,
      status            |-> "active" ]

\* the Trade pushed at lines 524-536
Position(e, slOrderId) ==
    [ tokenType         |-> e.opportunity.tokenType,
      tokenId           |-> e.opportunity.tokenId,
      buyOrderId        |-> e.buyOrderId,
      takeProfitOrderId |-> e.tpOrderId,
      stopLossOrderId   |-> slOrderId,
      buyPrice          |-> e.buyPrice,
      targetPrice       |-> e.takeProfitPrice,
      stopPrice         |-> e.stopLossPrice,
      amount            |-> tradeAmount,
      timestamp         |-> now,
      status            |-> "active" ]

(***************************************************************************)
(* The trading loop: startTradingLoop (lines 396-412).  The loop function  *)
(* is async; it is suspended at the await of checkBalances (pc "balance"), *)
(* at the awaits of the three createAndPostOrder calls ("buy", "tp", "sl"),*)
(* at the 2 s sleep ("sleep") and between iterations ("timer").  What runs *)
(* between two suspension points is one action.                            *)
(***************************************************************************)
\* setTimeout(loop, 1000) (line 409)
Reschedule ==
    /\ loopPc' = "timer"
    /\ loopDue' = now + LoopInterval

\* loop() is called: lines 398-401 and 449-453, up to the first await
LoopEnter(running) ==
    IF ~running
    THEN /\ loopPc' = "ended"
         /\ UNCHANGED <<loopDue, lastCheck>>
    ELSE IF CooldownActive(now, lastTradeTime)
    THEN /\ lastCheck' = [ outcome |-> "cooldown", usdc |-> ABSENT ]
         /\ Reschedule
    ELSE IF ~hasData
    THEN /\ lastCheck' = [ outcome |-> "noData", usdc |-> ABSENT ]
         /\ Reschedule
    ELSE /\ lastCheck' = [ outcome |-> "pending", usdc |-> ABSENT ]
         /\ loopPc' = "balance"
         /\ UNCHANGED loopDue

LoopTimerFire ==
    /\ loopPc = "timer"
    /\ now >= loopDue
    /\ LoopEnter(isRunning)
    /\ UNCHANGED <<now, oracleVars, isRunning, botData, activeTrades,
                   lastTradeTime, orders, exec, tradeAmount, startVars,
                   netVars, stopped, monitorVars>>

\* variant: executeTrade called without await: the iteration goes on to its
\* setTimeout while the entry order is still in flight
ExecuteStartDetached(opp) ==
    LET buyPrice == BuyPrice(opp.polymarketPrice)
        shares   == Shares(tradeAmount, buyPrice)
        call     == [ calls |-> exec.calls + 1, active |-> TRUE,
                      start |-> now, opportunity |-> opp,
                      buyPrice |-> buyPrice, shares |-> shares,
                      takeProfitPrice |-> 0, stopLossPrice |-> 0,
                      buyOrderId |-> 0, tpOrderId |-> 0,
                      outcome |-> "running" ]
    IN  /\ lastTradeTime' = StampCooldown(now, lastTradeTime)
        /\ UNCHANGED activeTrades
        /\ orders' = Append(orders,
                            Order(call.calls, "entry", opp.tokenId,
                                  "BUY", buyPrice, shares))
        /\ exec' = [call EXCEPT !.buyOrderId = Len(orders) + 1]
        /\ Reschedule

\* executeTrade is entered with the opportunity (lines 471-499)
ExecuteStart(opp) ==
    LET buyPrice == BuyPrice(opp.polymarketPrice)
        shares   == Shares(tradeAmount, buyPrice)
        call     == [ calls |-> exec.calls + 1, active |-> TRUE,
                      start |-> now, opportunity |-> opp,
                      buyPrice |-> buyPrice, shares |-> shares,
                      takeProfitPrice |-> 0, stopLossPrice |-> 0,
                      buyOrderId |-> 0, tpOrderId |-> 0,
                      outcome |-> "running" ]
    IN  /\ lastTradeTime' = StampCooldown(now, lastTradeTime)
        /\ UNCHANGED activeTrades
        /\ IF TooSmall(shares)
           THEN /\ exec' = [call EXCEPT !.active = FALSE,
                                        !.outcome = "tooSmall"]
                /\ UNCHANGED orders
                /\ Reschedule
           ELSE /\ orders' = Append(orders,
                                Order(call.calls, "entry", opp.tokenId,
                                      "BUY", buyPrice, shares))
                /\ exec' = [call EXCEPT !.buyOrderId = Len(orders) + 1]
                /\ loopPc' = "buy"
                /\ UNCHANGED loopDue

\* variant: an evaluation that finds nothing starts the cooldown too
BalanceReturnStamps(usdc) ==
    /\ loopPc = "balance"
    /\ IF BalanceTooLow(usdc)
       THEN /\ lastCheck' = [ outcome |-> "lowBalance", usdc |-> usdc ]
            /\ Reschedule
            /\ UNCHANGED <<activeTrades, lastTradeTime, orders, exec>>
       ELSE /\ lastCheck' = [ outcome |-> Scan, usdc |-> usdc ]
            /\ IF Scan = "none"
               THEN /\ Reschedule
                    /\ lastTradeTime' = now
                    /\ UNCHANGED <<activeTrades, orders, exec>>
               ELSE ExecuteStart(Opportunity(Scan))
    /\ UNCHANGED <<now, oracleVars, isRunning, botData, tradeAmount,
                   startVars, netVars, stopped, monitorVars>>

\* checkBalances returns usdc: lines 454-468, then lines 402-403
BalanceReturn(usdc) ==
    /\ loopPc = "balance"
    /\ IF BalanceTooLow(usdc)
       THEN /\ lastCheck' = [ outcome |-> "lowBalance", usdc |-> usdc ]
            /\ Reschedule
            /\ UNCHANGED <<activeTrades, lastTradeTime, orders, exec>>
       ELSE /\ lastCheck' = [ outcome |-> Scan, usdc |-> usdc ]
            /\ IF Scan = "none"
               THEN /\ Reschedule
                    /\ UNCHANGED <<activeTrades, lastTradeTime, orders,
                                   exec>>
               ELSE ExecuteStart(Opportunity(Scan))
    /\ UNCHANGED <<now, oracleVars, isRunning, botData, tradeAmount,
                   startVars, netVars, stopped, monitorVars>>

\* checkBalances throws: the catch of lines 405-407
BalanceThrow ==
    /\ loopPc = "balance"
    /\ lastCheck' = [ outcome |-> "error", usdc |-> ABSENT ]
    /\ Reschedule
    /\ UNCHANGED <<now, oracleVars, isRunning, botData, activeTrades,
                   lastTradeTime, orders, exec, tradeAmount, startVars,
                   netVars, stopped, monitorVars>>

\* the venue's answer to the order `id`: createAndPostOrder returned (ok)
\* or threw
Answered(id, ok) ==
    [orders EXCEPT ![id].status = IF ok THEN "ok" ELSE "failed"]

\* variant: a catch that ends the loop instead of falling through to the
\* setTimeout
ExecFailedStops ==
    /\ exec' = [exec EXCEPT !.active = FALSE, !.outcome = "failed"]
    /\ loopPc' = "ended"
    /\ UNCHANGED <<loopDue, activeTrades>>

\* the catch of lines 540-542, then line 409
ExecFailed ==
    /\ exec' = [exec EXCEPT !.active = FALSE, !.outcome = "failed"]
    /\ Reschedule
    /\ UNCHANGED activeTrades

\* the entry order's await returns or throws (lines 495-502)
BuyReturn(ok) ==
    /\ loopPc = "buy"
    /\ orders' = Answered(exec.buyOrderId, ok)
    /\ IF AfterOrder("entry", ok) = "catch"
       THEN ExecFailed
       ELSE /\ loopPc' = "sleep"
            /\ loopDue' = now + EntrySettleMs
            /\ UNCHANGED <<exec, activeTrades>>
    /\ UNCHANGED <<now, oracleVars, isRunning, botData, lastTradeTime,
                   lastCheck, tradeAmount, startVars, netVars, stopped, monitorVars>>

\* the sleep is over: lines 504-513, up to the await of the take-profit
SleepDone ==
    /\ loopPc = "sleep"
    /\ now >= loopDue
    /\ LET m  == exec.opportunity.polymarketPrice
           tp == TakeProfitPrice(m)
           sl == StopLossPrice(m)
       IN  /\ orders' = Append(orders,
                            Order(exec.calls, "tp", exec.opportunity.tokenId,
                                  "SELL", tp, exec.shares))
           /\ exec' = [exec EXCEPT !.takeProfitPrice = tp,
                                   !.stopLossPrice = sl,
                                   !.tpOrderId = Len(orders) + 1]
    /\ loopPc' = "tp"
    /\ UNCHANGED <<now, oracleVars, isRunning, botData, activeTrades,
                   lastTradeTime, lastCheck, loopDue, tradeAmount,
                   startVars, netVars, stopped, monitorVars>>

\* the take-profit's await returns or throws (lines 509-519)
TpReturn(ok) ==
    /\ loopPc = "tp"
    /\ IF AfterOrder("tp", ok) = "catch"
       THEN /\ orders' = Answered(exec.tpOrderId, ok)
            /\ ExecFailed
       ELSE /\ orders' = Append(
                   Answered(exec.tpOrderId, ok),
                   Order(exec.calls, "sl", exec.opportunity.tokenId,
                         "SELL", exec.stopLossPrice, exec.shares))
            /\ loopPc' = "sl"
            /\ UNCHANGED <<exec, activeTrades, loopDue>>
    /\ UNCHANGED <<now, oracleVars, isRunning, botData, lastTradeTime,
                   lastCheck, tradeAmount, startVars, netVars, stopped, monitorVars>>

\* the stop-loss's await returns or throws (lines 515-542)
SlReturn(ok) ==
    /\ loopPc = "sl"
    /\ orders' = Answered(Len(orders), ok)
    /\ IF AfterOrder("sl", ok) = "catch"
       THEN ExecFailed
       ELSE /\ activeTrades' = Append(activeTrades,
                                      Position(exec, Len(orders)))
            /\ exec' = [exec EXCEPT !.active = FALSE,
                                    !.outcome = "complete"]
            /\ Reschedule
    /\ UNCHANGED <<now, oracleVars, isRunning, botData, lastTradeTime,
                   lastCheck, tradeAmount, startVars, netVars, stopped, monitorVars>>

(***************************************************************************)
(* WebSockets and reconnect timers                                         *)
(***************************************************************************)
\* new WebSocket(url): the id of the socket it creates
NewSocketId == Len(sockets) + 1
NewSocket(feed) == Append(sockets, [ feed |-> feed, state |-> "connecting" ])

\* socket.close(): nothing on a closed socket
CloseCalled(socks, id) ==
    IF id # 0 /\ socks[id].state \in {"connecting", "open"}
    THEN [socks EXCEPT ![id].state = "closing"]
    ELSE socks

RemoveAt(seq, i) == SubSeq(seq, 1, i - 1) \o SubSeq(seq, i + 1, Len(seq))

\* a reconnect delay that grows with the connections made so far
ReconnectTimerBackoff(feed) ==
    [ feed |-> feed, due |-> now + reconnectInterval * Len(sockets) ]

\* setTimeout(() => this.connect(), this.reconnectInterval) (oracle, line
\* 144) and setTimeout(connect, 5000) (bot, line 333)
ReconnectTimer(feed) ==
    [ feed |-> feed,
      due  |-> now + (IF feed = "binance" THEN reconnectInterval
                      ELSE PolymarketReconnect) ]

\* the 'close' handlers: the oracle's (lines 138-146), the bot's (329-335)
ReconnectWanted(feed) ==
    IF feed = "binance" THEN oracleIsRunning ELSE isRunning

\* connect() proceeds to new WebSocket: the oracle's connect rejects when
\* the oracle is not running (lines 108-111); the bot's connect (lines
\* 295-298) tests nothing
ConnectAllowed(feed) ==
    IF feed = "binance" THEN oracleIsRunning ELSE TRUE

(***************************************************************************)
(* start() (lines 94-156), waitForInitialData (lines 173-200)              *)
(***************************************************************************)
\* line 150-152: isRunning = true, startMonitoring, startTradingLoop, whose
\* first loop() call runs at once
StartFinish ==
    /\ isRunning' = TRUE
    /\ startPc' = "done"
    /\ LoopEnter(TRUE)
    /\ UNCHANGED <<waited, waitDue, awaitSock>>

\* one pass of the while loop of waitForInitialData with `w` waited
WaitCheck(w) ==
    IF w < maxWait
    THEN IF hasData /\ (\E k \in DOMAIN polymarketPrices :
                           polymarketPrices[k] # ABSENT)
         THEN StartFinish
         ELSE /\ startPc' = "waiting"
              /\ waited' = w
              /\ waitDue' = now + WaitPollMs
              /\ UNCHANGED <<isRunning, loopVars, lastCheck, awaitSock>>
    ELSE StartFinish

\* variant: a start() that raises the running flag on entry
StartCallRunning ==
    /\ startPc = "new"
    /\ startPc' = "auth"
    /\ isRunning' = TRUE
    /\ UNCHANGED <<now, oracleVars, botData, tradeVars, tradeAmount,
                   loopVars, waited, waitDue, awaitSock, netVars, stopped, monitorVars>>

StartCall ==
    /\ startPc = "new"
    /\ startPc' = "auth"
    /\ UNCHANGED <<now, oracleVars, isRunning, botData, tradeVars,
                   tradeAmount, loopVars, waited, waitDue, awaitSock,
                   netVars, stopped, monitorVars>>

\* createOrDeriveApiKey returns or throws (lines 101-114)
AuthReturn(ok) ==
    /\ startPc = "auth"
    /\ startPc' = IF ok THEN "balances" ELSE "failed"
    /\ UNCHANGED <<now, oracleVars, isRunning, botData, tradeVars,
                   tradeAmount, loopVars, waited, waitDue, awaitSock,
                   netVars, stopped, monitorVars>>

\* the balance check of lines 125-134
StartBalances(sufficient) ==
    /\ startPc = "balances"
    /\ startPc' = IF sufficient THEN "market" ELSE "insufficient"
    /\ UNCHANGED <<now, oracleVars, isRunning, botData, tradeVars,
                   tradeAmount, loopVars, waited, waitDue, awaitSock,
                   netVars, stopped, monitorVars>>

\* initializeMarket returns or throws (lines 208-289); then
\* setupOracleHandlers and priceOracle.start() up to the await of the
\* connection (lines 141-142; oracle lines 87-116)
MarketReturn(found) ==
    /\ startPc = "market"
    /\ IF found /\ Len(sockets) < MaxSockets
       THEN /\ tokenIdUp' = TokenUp
            /\ tokenIdDown' = TokenDown
            /\ handlers' = TRUE
            /\ oracleIsRunning' = TRUE
            /\ sockets' = NewSocket("binance")
            /\ ws' = NewSocketId
            /\ awaitSock' = NewSocketId
            /\ waitDue' = now + ConnectTimeoutMs
            /\ startPc' = "oracleConnect"
       ELSE /\ startPc' = "noMarket"
            /\ UNCHANGED <<tokenIdUp, tokenIdDown, handlers,
                           oracleIsRunning, sockets, ws, awaitSock, waitDue>>
    /\ UNCHANGED <<now, candle, priceHistory, emitted, isRunning,
                   oraclePrices, polymarketPrices, messageCount, tradeVars,
                   tradeAmount, loopVars, waited, timers, polymarketWs,
                   stopped, monitorVars>>

\* the oracle's connect() promise rejects after 10 s without an open
\* socket (lines 148-152): start() throws
ConnectTimeout ==
    /\ startPc = "oracleConnect"
    /\ now >= waitDue
    /\ IF ws = 0 THEN TRUE ELSE sockets[ws].state # "open"
    /\ startPc' = "failed"
    /\ UNCHANGED <<now, oracleVars, isRunning, botData, tradeVars,
                   tradeAmount, loopVars, waited, waitDue, awaitSock,
                   netVars, stopped, monitorVars>>

\* a socket's 'open' event (oracle lines 118-122, bot lines 302-313) and
\* what the promise it resolves lets start() run
SocketOpen(id) ==
    /\ id \in DOMAIN sockets
    /\ sockets[id].state = "connecting"
    /\ IF sockets[id].feed = "binance" /\ startPc = "oracleConnect"
          /\ awaitSock = id /\ Len(sockets) < MaxSockets
       THEN \* connectPolymarketWebSocket (line 145)
            /\ sockets' = Append([sockets EXCEPT ![id].state = "open"],
                                 [ feed |-> "polymarket",
                                   state |-> "connecting" ])
            /\ polymarketWs' = NewSocketId
            /\ startPc' = "pmConnect"
            /\ UNCHANGED <<isRunning, loopVars, lastCheck, waited, waitDue,
                           awaitSock>>
       ELSE /\ sockets' = [sockets EXCEPT ![id].state = "open"]
            /\ UNCHANGED polymarketWs
            /\ IF sockets[id].feed = "polymarket" /\ startPc = "pmConnect"
               THEN WaitCheck(0)
               ELSE UNCHANGED <<isRunning, loopVars, lastCheck, startVars>>
    /\ UNCHANGED <<now, oracleVars, botData, activeTrades, lastTradeTime,
                   orders, exec, tradeAmount, timers, stopped, monitorVars>>

\* the sleep of waitForInitialData is over (lines 196-197)
WaitTick ==
    /\ startPc = "waiting"
    /\ now >= waitDue
    /\ WaitCheck(waited + WaitPollMs)
    /\ UNCHANGED <<now, oracleVars, botData, activeTrades, lastTradeTime,
                   orders, exec, tradeAmount, netVars, stopped, monitorVars>>

(***************************************************************************)
(* Connection loss, reconnection, stop()                                   *)
(***************************************************************************)
\* a socket's 'close' event and its handler
SocketClose(id) ==
    /\ id \in DOMAIN sockets
    /\ sockets[id].state # "closed"
    /\ sockets' = [sockets EXCEPT ![id].state = "closed"]
    /\ timers' = IF ReconnectWanted(sockets[id].feed)
                 THEN Append(timers, ReconnectTimer(sockets[id].feed))
                 ELSE timers
    /\ UNCHANGED <<now, oracleVars, isRunning, botData, tradeVars,
                   tradeAmount, loopVars, startVars, polymarketWs, stopped, monitorVars>>

\* a reconnect timer fires and calls connect()
TimerFire(i) ==
    /\ i \in DOMAIN timers
    /\ now >= timers[i].due
    /\ timers' = RemoveAt(timers, i)
    /\ IF ConnectAllowed(timers[i].feed)
       THEN /\ Len(sockets) < MaxSockets
            /\ sockets' = NewSocket(timers[i].feed)
            /\ IF timers[i].feed = "binance"
               THEN ws' = NewSocketId /\ UNCHANGED polymarketWs
               ELSE polymarketWs' = NewSocketId /\ UNCHANGED ws
       ELSE UNCHANGED <<sockets, ws, polymarketWs>>
    /\ UNCHANGED <<now, oracleIsRunning, candle, priceHistory, emitted,
                   isRunning, botData, tradeVars, tradeAmount, loopVars,
                   startVars, stopped, monitorVars>>

\* stop() (lines 545-550) with BinancePriceOracle.stop() (lines 95-101)
Stop ==
    /\ ~stopped
    /\ stopped' = TRUE
    /\ isRunning' = FALSE
    /\ oracleIsRunning' = FALSE
    /\ ws' = 0
    /\ sockets' = CloseCalled(CloseCalled(sockets, ws), polymarketWs)
    /\ UNCHANGED <<now, candle, priceHistory, emitted, botData, tradeVars,
                   tradeAmount, loopVars, startVars, timers, polymarketWs,
                   monitorVars>>

(***************************************************************************)
(* What arrives from outside                                               *)
(***************************************************************************)
Kline(o, c, t) ==
    [ e |-> "kline", o |-> o, c |-> c, h |-> Max2(o, c), l |-> Min2(o, c),
      t |-> t, T |-> t + MsPerHour - 1 ]

\* a flat candle half an hour old
MidFlatKline == Kline(50000, 50000, StartNow - MsPerHour \div 2)

\* the gates' updates: the candle that opens at StartNow, flat so far
\* (0.5 / 0.5), and prices that parse to 0
GateKlines ==
    { Kline(50000, 50000, StartNow),
      Kline(0, 0, StartNow) }

\* the trading core's updates: those, and the last update of the candle
\* before, closed up (0.99 / 0.01) or down (0.01 / 0.99)
Klines ==
    GateKlines \cup
    { Kline(50000, 50100, StartNow - MsPerHour),
      Kline(50000, 49900, StartNow - MsPerHour) }

\* the oracle's updates: those, and the half-hour-old candle flat, up and
\* down 0.2 %, the candle before closed where it opened, the candle that
\* opens at StartNow already 1 % up, and a cheap asset half an hour into
\* its candle
OracleKlines ==
    Klines \cup
    { MidFlatKline,
      Kline(50000, 50100, StartNow - MsPerHour \div 2),
      Kline(50000, 49900, StartNow - MsPerHour \div 2),
      Kline(50000, 50000, StartNow - MsPerHour),
      Kline(50000, 50500, StartNow),
      Kline(2, 3, StartNow - MsPerHour \div 2),
      Kline(3, 2, StartNow - MsPerHour \div 2) }

\* what else the stream delivers: the reply to a subscription request, which
\* has no event type, and an event of another type with candle fields
OracleOthers ==
    { [ e |-> "undefined", id |-> 1 ],
      [ Kline(50000, 50200, StartNow - MsPerHour \div 2)
            EXCEPT !.e = "24hrMiniTicker" ] }

Quote(asset, bid, ask) == [ asset_id |-> asset, bid |-> bid, ask |-> ask ]
Cents(n) == n * (ONE \div 100)

VenueMessages ==
    { [ shape |-> "array",
        items |-> << Quote(TokenUp, Cents(48), Cents(49)),
                     Quote(TokenDown, Cents(40), Cents(50)) >> ],
      [ shape |-> "price_changes",
        items |-> << Quote(TokenUp, Cents(49), Cents(49)) >> ],
      [ shape |-> "price_changes",
        items |-> << Quote(TokenDown, 0, 0) >> ],
      [ shape |-> "book",
        items |-> << Quote(TokenDown, 0, 0) >> ],
      [ shape |-> "book",
        items |-> << Quote(TokenUp, Cents(48), Cents(49)) >> ],
      [ shape |-> "array",
        items |-> << Quote(TokenOther, Cents(10), Cents(12)),
                     Quote(TokenUp, ABSENT, Cents(50)) >> ] }

Balances == {minimumBalance - 1, minimumBalance}

(***************************************************************************)
(* The trading core: start-up without failures of the network, the two    *)
(* feeds, the clock and the trading loop                                   *)
(***************************************************************************)
\* at most n updates, each one of klines
Ticks(klines, n) == \E k \in klines : emitted.count < n /\ OracleTick(k)

Next ==
    \/ StartCall
    \/ \E ok \in BOOLEAN : AuthReturn(ok)
    \/ \E sufficient \in BOOLEAN : StartBalances(sufficient)
    \/ \E found \in BOOLEAN : MarketReturn(found)
    \/ \E id \in DOMAIN sockets : SocketOpen(id)
    \/ WaitTick
    \/ Ticks(Klines, MaxTicks)
    \/ \E msg \in VenueMessages :
          messageCount < MaxMessages /\ VenueMessage(msg)
    \/ ClockAdvance(MaxClockSteps)
    \/ LoopTimerFire
    \/ \E usdc \in Balances : BalanceReturn(usdc)
    \/ BalanceThrow
    \/ \E ok \in BOOLEAN : BuyReturn(ok)
    \/ SleepDone
    \/ \E ok \in BOOLEAN : TpReturn(ok)
    \/ \E ok \in BOOLEAN : SlReturn(ok)

Spec == Init /\ [][Next]_vars

(***************************************************************************)
(* The gates: the trading core over a shorter time, with one more update   *)
(* of the oracle, so that its data can go away while the loop is running   *)
(***************************************************************************)
NextGate ==
    \/ StartCall
    \/ \E ok \in BOOLEAN : AuthReturn(ok)
    \/ \E sufficient \in BOOLEAN : StartBalances(sufficient)
    \/ \E found \in BOOLEAN : MarketReturn(found)
    \/ \E id \in DOMAIN sockets : SocketOpen(id)
    \/ WaitTick
    \/ Ticks(GateKlines, MaxGateTicks)
    \/ \E msg \in VenueMessages :
          messageCount < MaxMessages /\ VenueMessage(msg)
    \/ ClockAdvance(MaxGateClockSteps)
    \/ LoopTimerFire
    \/ \E usdc \in Balances : BalanceReturn(usdc)
    \/ BalanceThrow
    \/ \E ok \in BOOLEAN : BuyReturn(ok)
    \/ SleepDone
    \/ \E ok \in BOOLEAN : TpReturn(ok)
    \/ \E ok \in BOOLEAN : SlReturn(ok)

SpecGate == Init /\ [][NextGate]_vars

(***************************************************************************)
(* The life cycle: start-up, connection loss, reconnection and stop()      *)
(***************************************************************************)
NextLife ==
    \/ StartCall
    \/ \E ok \in BOOLEAN : AuthReturn(ok)
    \/ \E sufficient \in BOOLEAN : StartBalances(sufficient)
    \/ \E found \in BOOLEAN : MarketReturn(found)
    \/ ConnectTimeout
    \/ \E id \in DOMAIN sockets : SocketOpen(id)
    \/ WaitTick
    \/ \E id \in DOMAIN sockets : SocketClose(id)
    \/ \E i \in DOMAIN timers : TimerFire(i)
    \/ Stop
    \/ ClockAdvance(MaxLifeClockSteps)
    \/ LoopTimerFire

SpecLife == Init /\ [][NextLife]_vars

(***************************************************************************)
(* The oracle alone.  It starts where start() awaits the venue's socket,   *)
(* after Warm updates of a flat candle half an hour old, which came one    *)
(* per clock step or in one burst within a millisecond.                    *)
(***************************************************************************)
WarmSpacings == {0, ClockStep}

WarmHistory(dt) ==
    [ i \in 1..Warm |->
        [ price |-> MidFlatKline.c, time |-> StartNow - (Warm - i) * dt ] ]

WarmSnapshot(dt) ==
    calculateProbability(MidFlatKline.c, MidFlatKline.o, MidFlatKline.t,
                         MidFlatKline.T, WarmHistory(dt), StartNow)

InitOracle ==
    /\ now = StartNow
    /\ oracleIsRunning = TRUE
    /\ ws = 1
    /\ candle = [ currentPrice   |-> MidFlatKline.c,
                  openPrice      |-> MidFlatKline.o,
                  highPrice      |-> MidFlatKline.h,
                  lowPrice       |-> MidFlatKline.l,
                  klineStartTime |-> MidFlatKline.t,
                  klineCloseTime |-> MidFlatKline.T ]
    /\ \E dt \in WarmSpacings :
          /\ priceHistory = WarmHistory(dt)
          /\ emitted = [ count |-> Warm, snapshot |-> WarmSnapshot(dt),
                         messages |-> Warm, message |-> MidFlatKline ]
          /\ oraclePrices = [ UP   |-> WarmSnapshot(dt).probUp,
                              DOWN |-> WarmSnapshot(dt).probDown ]
    /\ isRunning = FALSE
    /\ tokenIdUp = TokenUp
    /\ tokenIdDown = TokenDown
    /\ handlers = TRUE
    /\ polymarketPrices = [ k \in {TokenUp, TokenDown} |-> ABSENT ]
    /\ messageCount = 0
    /\ activeTrades = <<>>
    /\ lastTradeTime = 0
    /\ tradeAmount \in TradeAmounts
    /\ polymarketWs = 2
    /\ sockets = << [ feed |-> "binance", state |-> "open" ],
                    [ feed |-> "polymarket", state |-> "connecting" ] >>
    /\ timers = <<>>
    /\ startPc = "pmConnect"
    /\ waited = 0
    /\ waitDue = StartNow
    /\ awaitSock = 1
    /\ loopPc = "off"
    /\ loopDue = 0
    /\ exec = NoExec
    /\ lastCheck = NoCheck
    /\ orders = <<>>
    /\ stopped = FALSE
    /\ lastBalanceCheck = 0
    /\ monitorChecks = {}

NextOracle ==
    \/ \E k \in OracleKlines :
          emitted.count < Warm + MaxOracleTicks /\ OracleMessage(k)
    \/ \E m \in OracleOthers :
          /\ emitted.messages - emitted.count < MaxOracleOthers
          /\ OracleMessage(m)
    \/ ClockAdvance(MaxOracleClockSteps)

SpecOracle == InitOracle /\ [][NextOracle]_vars

(***************************************************************************)
(* The running bot: start() has just returned.  The oracle has seen the    *)
(* first update of the candle that opens at StartNow (0.5 / 0.5), the venue *)
(* has sent its initial snapshot, waitForInitialData has passed on its      *)
(* first check, and the first evaluation of the loop is waiting for the    *)
(* balances.                                                               *)
(***************************************************************************)
TradeKline == Kline(50000, 50000, StartNow)

TradeSnapshot ==
    calculateProbability(TradeKline.c, TradeKline.o, TradeKline.t,
                         TradeKline.T,
                         << [ price |-> TradeKline.c, time |-> StartNow ] >>,
                         StartNow)

\* the venue's updates after the snapshot: UP at 0.49, DOWN at half a cent
\* (a market with a 0.001 tick), UP back at 0.485
TradeMessages ==
    { [ shape |-> "price_changes",
        items |-> << Quote(TokenUp, Cents(49), Cents(49)) >> ],
      [ shape |-> "price_changes",
        items |-> << Quote(TokenDown, 4 * (ONE \div 1000),
                           6 * (ONE \div 1000)) >> ],
      [ shape |-> "book",
        items |-> << Quote(TokenUp, Cents(48), Cents(49)) >> ] }

InitTrade ==
    /\ now = StartNow
    /\ oracleIsRunning = TRUE
    /\ ws = 1
    /\ candle = [ currentPrice   |-> TradeKline.c,
                  openPrice      |-> TradeKline.o,
                  highPrice      |-> TradeKline.h,
                  lowPrice       |-> TradeKline.l,
                  klineStartTime |-> TradeKline.t,
                  klineCloseTime |-> TradeKline.T ]
    /\ priceHistory = << [ price |-> TradeKline.c, time |-> StartNow ] >>
    /\ emitted = [ count |-> 1, snapshot |-> TradeSnapshot,
                   messages |-> 1, message |-> TradeKline ]
    /\ oraclePrices = [ UP   |-> TradeSnapshot.probUp,
                        DOWN |-> TradeSnapshot.probDown ]
    /\ isRunning = TRUE
    /\ tokenIdUp = TokenUp
    /\ tokenIdDown = TokenDown
    /\ handlers = TRUE
    /\ polymarketPrices =
          [ k \in {TokenUp, TokenDown} |->
              IF k = TokenUp THEN (Cents(48) + Cents(49)) \div 2
              ELSE (Cents(40) + Cents(50)) \div 2 ]
    /\ messageCount = 1
    /\ activeTrades = <<>>
    /\ lastTradeTime = 0
    /\ tradeAmount \in TradeAmounts
    /\ polymarketWs = 2
    /\ sockets = << [ feed |-> "binance", state |-> "open" ],
                    [ feed |-> "polymarket", state |-> "open" ] >>
    /\ timers = <<>>
    /\ startPc = "done"
    /\ waited = 0
    /\ waitDue = 0
    /\ awaitSock = 1
    /\ loopPc = "balance"
    /\ loopDue = 0
    /\ exec = NoExec
    /\ lastCheck = [ outcome |-> "pending", usdc |-> ABSENT ]
    /\ orders = <<>>
    /\ stopped = FALSE
    /\ lastBalanceCheck = 0
    /\ monitorChecks = {}

NextTrade ==
    \/ \E msg \in TradeMessages :
          messageCount < 1 + MaxTradeMessages /\ VenueMessage(msg)
    \/ ClockAdvance(MaxTradeClockSteps)
    \/ LoopTimerFire
    \/ \E usdc \in Balances : BalanceReturn(usdc)
    \/ BalanceThrow
    \/ \E ok \in BOOLEAN : BuyReturn(ok)
    \/ SleepDone
    \/ \E ok \in BOOLEAN : TpReturn(ok)
    \/ \E ok \in BOOLEAN : SlReturn(ok)

SpecTrade == InitTrade /\ [][NextTrade]_vars

(***************************************************************************)
(* The running bot and stop(), under the scheduling of the event loop: time *)
(* passes, a timer that is due fires, and an awaited call of the balance   *)
(* checker or of the venue returns or throws.                              *)
(***************************************************************************)
NextLoop ==
    \/ NextTrade
    \/ Stop

SpecLoop ==
    /\ InitTrade
    /\ [][NextLoop]_vars
    /\ WF_vars(ClockAdvance(MaxTradeClockSteps))
    /\ WF_vars(LoopTimerFire)
    /\ WF_vars(SleepDone)
    /\ WF_vars((\E usdc \in Balances : BalanceReturn(usdc)) \/ BalanceThrow)
    /\ WF_vars(\E ok \in BOOLEAN :
                  BuyReturn(ok) \/ TpReturn(ok) \/ SlReturn(ok))

(***************************************************************************)
(* The running bot at the ends of the price band: the oracle may report    *)
(* the candle before as closed up (0.99 / 0.01), and the venue quotes UP   *)
(* at 0.975 (the highest price that can qualify) and at 0.98, and DOWN at  *)
(* 0.01.  The monitoring timer runs beside the trading loop.               *)
(***************************************************************************)
BandMessages ==
    { [ shape |-> "price_changes",
        items |-> << Quote(TokenUp, Cents(97), Cents(98)) >> ],
      [ shape |-> "price_changes",
        items |-> << Quote(TokenUp, Cents(98), Cents(98)) >> ],
      [ shape |-> "book",
        items |-> << Quote(TokenDown, Cents(1), Cents(1)) >> ] }

\* the monitoring timer's callback (lines 417-445) up to its await: it
\* returns when the bot is not running, and starts a balance check when the
\* last one is balanceCheckInterval old.  Its other branch only logs the
\* status (lines 431-444), which changes no field.  The phase of the
\* interval is not kept: the callback may run at any value of the clock.
MonitorFire ==
    /\ startPc = "done"
    /\ isRunning
    /\ now - lastBalanceCheck >= balanceCheckInterval
    /\ now \notin monitorChecks
    /\ Cardinality(monitorChecks) < MaxMonitorChecks
    /\ monitorChecks' = monitorChecks \cup {now}
    /\ UNCHANGED <<now, oracleVars, isRunning, botData, tradeVars,
                   tradeAmount, loopVars, startVars, netVars, stopped,
                   lastBalanceCheck>>

\* checkBalances returns to a monitoring callback: the warning of lines
\* 424-427 is a log, line 428 stores the time the callback read
MonitorBalanceReturn ==
    \E read \in monitorChecks :
        /\ lastBalanceCheck' = read
        /\ monitorChecks' = monitorChecks \ {read}
        /\ UNCHANGED <<now, oracleVars, isRunning, botData, tradeVars,
                       tradeAmount, loopVars, startVars, netVars, stopped>>

NextBand ==
    \/ MonitorFire
    \/ MonitorBalanceReturn
    \/ /\ emitted.count < 1 + MaxBandTicks
       /\ OracleMessage(Kline(50000, 50100, StartNow - MsPerHour))
    \/ \E msg \in BandMessages :
          messageCount < 1 + MaxBandMessages /\ VenueMessage(msg)
    \/ ClockAdvance(MaxBandClockSteps)
    \/ LoopTimerFire
    \/ \E usdc \in Balances : BalanceReturn(usdc)
    \/ BalanceThrow
    \/ \E ok \in BOOLEAN : BuyReturn(ok)
    \/ SleepDone
    \/ \E ok \in BOOLEAN : TpReturn(ok)
    \/ \E ok \in BOOLEAN : SlReturn(ok)

SpecBand == InitTrade /\ [][NextBand]_vars

(***************************************************************************)
(* The oracle on its own, started and stopped by its owner any number of   *)
(* times: start() is called on an oracle that is not running, stop() on    *)
(* one that is.                                                            *)
(***************************************************************************)
\* BinancePriceOracle.start() (lines 87-90), up to the await of connect()
OracleStart ==
    /\ ~oracleIsRunning
    /\ Len(sockets) < MaxSockets
    /\ oracleIsRunning' = TRUE
    /\ sockets' = NewSocket("binance")
    /\ ws' = NewSocketId
    /\ UNCHANGED <<now, candle, priceHistory, emitted, isRunning, botData,
                   tradeVars, tradeAmount, loopVars, startVars, timers,
                   polymarketWs, stopped, monitorVars>>

\* BinancePriceOracle.stop() (lines 95-101)
OracleStop ==
    /\ oracleIsRunning
    /\ oracleIsRunning' = FALSE
    /\ sockets' = CloseCalled(sockets, ws)
    /\ ws' = 0
    /\ UNCHANGED <<now, candle, priceHistory, emitted, isRunning, botData,
                   tradeVars, tradeAmount, loopVars, startVars, timers,
                   polymarketWs, stopped, monitorVars>>

NextRestart ==
    \/ OracleStart
    \/ OracleStop
    \/ \E id \in DOMAIN sockets : SocketOpen(id)
    \/ \E id \in DOMAIN sockets : SocketClose(id)
    \/ \E i \in DOMAIN timers : TimerFire(i)
    \/ ClockAdvance(MaxRestartClockSteps)

SpecRestart == Init /\ [][NextRestart]_vars

(***************************************************************************)
(* The oracle with a history one sample short of maxHistorySize: a candle  *)
(* half an hour old whose updates came once a second, the price moving by  *)
(* a few dollars.                                                          *)
(***************************************************************************)
NearFullHistory ==
    [ i \in 1..(maxHistorySize - 1) |->
        [ price |-> 50000 + (i % 5),
          time  |-> StartNow - (maxHistorySize - 1 - i) * ClockStep ] ]

NearFullKline ==
    Kline(50000, NearFullHistory[maxHistorySize - 1].price,
          StartNow - MsPerHour \div 2)

NearFullSnapshot ==
    calculateProbability(NearFullKline.c, NearFullKline.o, NearFullKline.t,
                         NearFullKline.T, NearFullHistory, StartNow)

InitHistory ==
    /\ now = StartNow
    /\ oracleIsRunning = TRUE
    /\ ws = 1
    /\ candle = [ currentPrice   |-> NearFullKline.c,
                  openPrice      |-> NearFullKline.o,
                  highPrice      |-> NearFullKline.h,
                  lowPrice       |-> NearFullKline.l,
                  klineStartTime |-> NearFullKline.t,
                  klineCloseTime |-> NearFullKline.T ]
    /\ priceHistory = NearFullHistory
    /\ emitted = [ count |-> maxHistorySize - 1,
                   snapshot |-> NearFullSnapshot,
                   messages |-> maxHistorySize - 1,
                   message |-> NearFullKline ]
    /\ oraclePrices = [ UP   |-> NearFullSnapshot.probUp,
                        DOWN |-> NearFullSnapshot.probDown ]
    /\ isRunning = FALSE
    /\ tokenIdUp = TokenUp
    /\ tokenIdDown = TokenDown
    /\ handlers = TRUE
    /\ polymarketPrices = [ k \in {TokenUp, TokenDown} |-> ABSENT ]
    /\ messageCount = 0
    /\ activeTrades = <<>>
    /\ lastTradeTime = 0
    /\ tradeAmount \in TradeAmounts
    /\ polymarketWs = 2
    /\ sockets = << [ feed |-> "binance", state |-> "open" ],
                    [ feed |-> "polymarket", state |-> "connecting" ] >>
    /\ timers = <<>>
    /\ startPc = "pmConnect"
    /\ waited = 0
    /\ waitDue = StartNow
    /\ awaitSock = 1
    /\ loopPc = "off"
    /\ loopDue = 0
    /\ exec = NoExec
    /\ lastCheck = NoCheck
    /\ orders = <<>>
    /\ stopped = FALSE
    /\ lastBalanceCheck = 0
    /\ monitorChecks = {}

NextHistory ==
    \/ \E k \in Klines :
          /\ emitted.count < maxHistorySize - 1 + MaxHistoryTicks
          /\ OracleMessage(k)
    \/ \E m \in OracleOthers :
          /\ emitted.messages - emitted.count < MaxOracleOthers
          /\ OracleMessage(m)
    \/ ClockAdvance(MaxHistoryClockSteps)

SpecHistory == InitHistory /\ [][NextHistory]_vars

(***************************************************************************)
(* Properties.  They are stated on the raw state, not through the          *)
(* operators of the model, so that they say what the code must do.         *)
(***************************************************************************)
\* this step calls loop(): the loop's timer fires, or start() reaches
\* startTradingLoop
LoopCalled ==
    \/ loopPc = "timer" /\ (loopPc' # "timer" \/ loopDue' # loopDue)
    \/ startPc # "done" /\ startPc' = "done"

\* the evaluation ends at once without an opportunity, and nothing is traded
NothingTraded ==
    /\ loopPc' = "timer"
    /\ exec' = exec
    /\ orders' = orders
    /\ activeTrades' = activeTrades

\* the orders executeTrade call c has posted, in the order of posting
OrdersOf(c) == SelectSeq(orders, LAMBDA o : o.call = c)

\* this step runs the scan of checkTradeOpportunity
ScanRuns == loopPc = "balance" /\ lastCheck'.outcome \in {"UP", "DOWN", "none"}

\* the side's values when the scan runs, and the condition on them
SidePrice(side) ==
    LET id == IF side = "UP" THEN tokenIdUp ELSE tokenIdDown
    IN  IF polymarketPrices[id] = ABSENT THEN 0 ELSE polymarketPrices[id]
SideMeets(side) ==
    /\ oraclePrices[side] # NaN
    /\ oraclePrices[side] - SidePrice(side) >= priceThreshold
    /\ oraclePrices[side] > 0
    /\ SidePrice(side) > 0

\* C1: an evaluation that starts less than TRADE_COOLDOWN seconds after
\* lastTradeTime returns no opportunity, and no trade is executed.
C1_CooldownGate ==
    [][ (LoopCalled /\ isRunning'
         /\ now - lastTradeTime < TRADE_COOLDOWN * 1000)
        => (lastCheck'.outcome = "cooldown" /\ NothingTraded) ]_vars

\* an evaluation has been turned away one second after a trade attempt
C1_Witness ==
    /\ lastCheck.outcome = "cooldown"
    /\ exec.calls = 1
    /\ now - lastTradeTime = LoopInterval

\* C2: executeTrade sets lastTradeTime to the time of its start, no order
\* of the call exists before that, and the value stays on every outcome:
\* in every state after a call, whatever its outcome, lastTradeTime is
\* the time at which the latest call started.
C2_StampAtStart ==
    exec.calls > 0 =>
        /\ lastTradeTime = exec.start
        /\ exec.start <= now
        /\ exec.outcome \in {"running", "complete", "tooSmall", "failed"}

\* a complete trade, and the next evaluation turned away by its cooldown
C2_Witness ==
    /\ exec.outcome = "complete"
    /\ lastTradeTime = exec.start
    /\ lastCheck.outcome = "cooldown"
    /\ now > exec.start

\* C3: the orders of a call are, in order, the entry BUY, the take-profit
\* SELL and the stop-loss SELL, all for the same token and size; only the
\* last order of a call can have failed, and an order is posted only
\* after the ones before it succeeded; the ledger holds exactly one
\* position for each call whose three orders succeeded.
C3_BracketProtocol ==
    /\ \A c \in 1..exec.calls :
          LET os == OrdersOf(c)
          IN  /\ Len(os) <= 3
              /\ \A i \in 1..Len(os) :
                    /\ os[i].role = <<"entry", "tp", "sl">>[i]
                    /\ os[i].side = <<"BUY", "SELL", "SELL">>[i]
                    /\ os[i].tokenID = os[1].tokenID
                    /\ os[i].size = os[1].size
                    /\ i < Len(os) => os[i].status = "ok"
    /\ LET os == OrdersOf(exec.calls)
       IN  os # <<>> =>
               /\ os[1].price = exec.buyPrice
               /\ os[1].size = exec.shares
               /\ os[1].tokenID = exec.opportunity.tokenId
    /\ Len(activeTrades) =
          Cardinality({ c \in 1..exec.calls :
                          /\ Len(OrdersOf(c)) = 3
                          /\ \A i \in 1..3 : OrdersOf(c)[i].status = "ok" })
    /\ \A j \in DOMAIN activeTrades :
          LET t == activeTrades[j]
          IN  /\ orders[t.buyOrderId].role = "entry"
              /\ orders[t.takeProfitOrderId].role = "tp"
              /\ orders[t.stopLossOrderId].role = "sl"
              /\ orders[t.buyOrderId].call = orders[t.stopLossOrderId].call
              /\ orders[t.buyOrderId].call
                    = orders[t.takeProfitOrderId].call

\* one trade is complete and in the ledger; the next one has failed at its
\* entry order and left nothing more
C3_Witness ==
    /\ exec.calls = 2
    /\ exec.outcome = "failed"
    /\ Len(activeTrades) = 1
    /\ Len(orders) = 4
    /\ orders[4].status = "failed"

\* C4: when the quantity of a call is less than 1, the call posts no
\* order and adds no position.
C4_NoOrderBelowOne ==
    (exec.calls > 0 /\ exec.shares < 1) =>
        /\ exec.outcome = "tooSmall"
        /\ OrdersOf(exec.calls) = <<>>
        /\ \A j \in DOMAIN activeTrades :
              orders[activeTrades[j].buyOrderId].call # exec.calls

\* a budget of 0.40 against an entry price of 0.49: quantity 0
C4_Witness ==
    /\ exec.outcome = "tooSmall"
    /\ exec.shares = 0
    /\ exec.buyPrice > tradeAmount
    /\ orders = <<>>
    /\ activeTrades = <<>>

\* C5: the scan reports an opportunity exactly when a side has
\* oraclePrice - marketPrice >= priceThreshold, oraclePrice > 0 and
\* marketPrice > 0; the side it reports meets the condition, and the
\* opportunity handed to executeTrade carries that side's values.
C5_DetectionCondition ==
    [][ ScanRuns =>
          LET r == lastCheck'.outcome
          IN  /\ (r # "none") <=> (SideMeets("UP") \/ SideMeets("DOWN"))
              /\ r # "none" =>
                    /\ SideMeets(r)
                    /\ exec'.calls = exec.calls + 1
                    /\ exec'.opportunity =
                          [ tokenType       |-> r,
                            tokenId         |-> IF r = "UP" THEN tokenIdUp
                                                ELSE tokenIdDown,
                            oraclePrice     |-> oraclePrices[r],
                            polymarketPrice |-> SidePrice(r),
                            difference      |-> oraclePrices[r]
                                                  - SidePrice(r) ] ]_vars

\* an opportunity whose edge is exactly the threshold, on the only side
\* with a market price
C5_Witness ==
    /\ lastCheck.outcome = "UP"
    /\ exec.opportunity.tokenType = "UP"
    /\ exec.opportunity.difference = priceThreshold
    /\ exec.start = now
    /\ SidePrice("DOWN") = 0

\* C6: the scan tests UP before DOWN and reports the first side that
\* meets the condition: UP whenever UP meets it, DOWN only when UP does
\* not.
C6_UpBeforeDown ==
    [][ ScanRuns =>
          /\ SideMeets("UP") => lastCheck'.outcome = "UP"
          /\ (~SideMeets("UP") /\ SideMeets("DOWN"))
                => lastCheck'.outcome = "DOWN" ]_vars

\* UP was reported although DOWN met the condition with the larger edge
C6_Witness ==
    /\ lastCheck.outcome = "UP"
    /\ exec.opportunity.tokenType = "UP"
    /\ exec.start = now
    /\ SideMeets("DOWN")
    /\ oraclePrices["DOWN"] - SidePrice("DOWN") > exec.opportunity.difference

\* C7: an evaluation that starts while hasData() is false (a price of the
\* candle is not positive) returns no opportunity; an evaluation whose
\* balance read returns less than the minimum returns no opportunity.
C7_DataAndBalanceGates ==
    [][ /\ (LoopCalled /\ isRunning'
            /\ (candle.currentPrice <= 0 \/ candle.openPrice <= 0))
           => (lastCheck'.outcome \in {"cooldown", "noData"}
               /\ NothingTraded)
        /\ (loopPc = "balance" /\ lastCheck'.usdc # ABSENT
            /\ lastCheck'.usdc < minimumBalance)
           => (lastCheck'.outcome = "lowBalance" /\ NothingTraded) ]_vars

\* the oracle's prices went to 0 while the loop was running, and the next
\* evaluation was turned away for it
C7_Witness ==
    /\ isRunning
    /\ lastCheck.outcome = "noData"
    /\ candle.currentPrice = 0
    /\ Len(priceHistory) = 2
    /\ priceHistory[1].price > 0

\* the running flag the feed's close handler reads
RunningFlag(feed) == IF feed = "binance" THEN oracleIsRunning ELSE isRunning

\* C8: after stop() is called, no new connection to either feed is
\* established.  Stated for a bot whose start() had completed before the
\* stop and whose running flag is therefore false from then on: no step
\* creates a WebSocket.
C8_NoConnectionAfterStop ==
    [][ (stopped /\ startPc = "done" /\ ~isRunning)
        => Len(sockets') = Len(sockets) ]_vars

\* C9: while the feed's running flag is true, every close of a connection
\* schedules one reconnect attempt exactly 5 seconds later, whatever the
\* number of attempts before it; an attempt is made only when its
\* delay is over, and while the flag is true it opens a new connection
\* to the same feed.
C9_ReconnectPolicy ==
    [][ /\ \A id \in DOMAIN sockets :
              (sockets[id].state # "closed" /\ sockets'[id].state = "closed"
               /\ RunningFlag(sockets[id].feed))
              => timers' = Append(timers, [ feed |-> sockets[id].feed,
                                            due  |-> now + 5 * 1000 ])
        /\ Len(timers') < Len(timers)
              => \E i \in DOMAIN timers :
                    /\ now >= timers[i].due
                    /\ timers' = SubSeq(timers, 1, i - 1)
                                    \o SubSeq(timers, i + 1, Len(timers))
                    /\ RunningFlag(timers[i].feed)
                          => sockets' = Append(sockets,
                                           [ feed  |-> timers[i].feed,
                                             state |-> "connecting" ]) ]_vars

\* the oracle is on its third connection: it has reconnected twice
C9_Witness ==
    /\ oracleIsRunning
    /\ Cardinality({ i \in DOMAIN sockets : sockets[i].feed = "binance" }) >= 3
    /\ \E i \in DOMAIN sockets :
          sockets[i].feed = "binance" /\ sockets[i].state = "open"

\* C10: every snapshot that calculateProbability produces has probUp in
\* [0.01, 0.99].
C10_ProbUpInRange ==
    emitted.count > 0 =>
        /\ emitted.snapshot.probUp >= ONE \div 100
        /\ emitted.snapshot.probUp <= 99 * (ONE \div 100)

\* C11 (original statement): a snapshot taken when timeRemaining <= 0 has
\* probUp == 1 if priceChange > 0 and probUp == 0 if priceChange < 0.
C11_ExpiredIsCertain ==
    (emitted.count > 0 /\ emitted.snapshot.timeRemainingMs <= 0) =>
        /\ emitted.snapshot.priceChange > 0 => emitted.snapshot.probUp = ONE
        /\ emitted.snapshot.priceChange < 0 => emitted.snapshot.probUp = 0

\* C11 (amended): a snapshot of an initialized candle (open and current
\* price both non-zero) taken when timeRemaining <= 0 has probUp == 0.99
\* if priceChange > 0 and probUp == 0.01 if priceChange < 0: the certain
\* outcome 1 or 0 of the expired branch is clamped like every other.
C11_ExpiredIsClamped ==
    (/\ emitted.count > 0
     /\ emitted.snapshot.timeRemainingMs <= 0
     /\ emitted.snapshot.openPrice # 0
     /\ emitted.snapshot.currentPrice # 0) =>
        /\ emitted.snapshot.priceChange > 0
              => emitted.snapshot.probUp = 99 * (ONE \div 100)
        /\ emitted.snapshot.priceChange < 0
              => emitted.snapshot.probUp = ONE \div 100

\* an update of the candle that closed before StartNow arrived after the
\* warm history, with the close above the open
C11_Witness ==
    /\ emitted.count > Warm
    /\ emitted.snapshot.timeRemainingMs = 0
    /\ candle.klineCloseTime < now
    /\ emitted.snapshot.priceChange > 0
    /\ emitted.snapshot.probUp = 99 * (ONE \div 100)

\* C12: for an initialized candle with time remaining, whenever more than
\* 98 % of the candle's duration remains the snapshot has probUp == 0.5,
\* whatever the price change and the history.
C12_JustOpenedIsEven ==
    (/\ emitted.count > 0
     /\ emitted.snapshot.openPrice # 0
     /\ emitted.snapshot.currentPrice # 0
     /\ emitted.snapshot.timeRemainingMs > 0
     /\ candle.klineCloseTime > candle.klineStartTime
     /\ emitted.snapshot.timeRemainingMs * 100
            > 98 * (candle.klineCloseTime - candle.klineStartTime)) =>
        emitted.snapshot.probUp = ONE \div 2

\* the candle that opened at StartNow was reported 1 % up a second or more
\* into it, on top of a full volatility window
C12_Witness ==
    /\ emitted.count > Warm
    /\ Len(priceHistory) >= MinVolSamples
    /\ candle.klineStartTime = StartNow
    /\ now > StartNow
    /\ emitted.snapshot.priceChange > 0
    /\ emitted.snapshot.timeRemainingMs < MsPerHour - 1
    /\ emitted.snapshot.probUp = ONE \div 2

\* C13: in every snapshot probUp and probDown are numbers that add up to
\* exactly 1, in every branch (uninitialized, expired, just-opened,
\* degenerate standard deviation, normal CDF).
C13_Complementary ==
    emitted.count > 0 =>
        /\ emitted.snapshot.probUp # NaN
        /\ emitted.snapshot.probDown # NaN
        /\ emitted.snapshot.probUp + emitted.snapshot.probDown = ONE

\* C14: each candle-update message replaces all six candle fields with the
\* message's, appends exactly one (close, now) sample to the history, and
\* notifies the observers exactly once with the snapshot computed from the
\* new candle; a message that is not a candle update changes no oracle
\* state and notifies no observer.
C14_OracleIngest ==
    [][ emitted'.messages = emitted.messages + 1 =>
          LET m == emitted'.message
              n == Len(priceHistory')
          IN  IF m.e = "kline"
              THEN /\ candle' = [ currentPrice   |-> m.c, openPrice |-> m.o,
                                  highPrice      |-> m.h, lowPrice  |-> m.l,
                                  klineStartTime |-> m.t,
                                  klineCloseTime |-> m.T ]
                   /\ n > 0
                   /\ priceHistory'[n] = [ price |-> m.c, time |-> now ]
                   /\ \/ SubSeq(priceHistory', 1, n - 1) = priceHistory
                      \/ SubSeq(priceHistory', 1, n - 1) = Tail(priceHistory)
                   /\ emitted'.count = emitted.count + 1
                   /\ emitted'.snapshot =
                         calculateProbability(m.c, m.o, m.t, m.T,
                                              priceHistory', now)
                   /\ handlers =>
                         oraclePrices' =
                            [ UP   |-> emitted'.snapshot.probUp,
                              DOWN |-> emitted'.snapshot.probDown ]
              ELSE /\ UNCHANGED <<oracleIsRunning, ws, candle, priceHistory,
                                  oraclePrices>>
                   /\ emitted'.count = emitted.count
                   /\ emitted'.snapshot = emitted.snapshot ]_vars

\* an event of another type was handled after a candle update that had
\* changed the candle, and the candle and the history are as that update
\* left them
C14_Witness ==
    /\ emitted.count > Warm
    /\ emitted.messages > emitted.count
    /\ emitted.message.e = "24hrMiniTicker"
    /\ candle.currentPrice # emitted.message.c
    /\ priceHistory[Len(priceHistory)].price = candle.currentPrice
    /\ emitted.snapshot.currentPrice = candle.currentPrice

\* C15: the price history is a bounded FIFO: its length is
\* min(ticks ingested, 300), it holds the most recent samples in arrival
\* order, a tick on a full history evicts exactly the oldest sample, and a
\* stored sample is never modified.
C15_BoundedFifo ==
    [][ /\ Len(priceHistory') = Min2(emitted'.count, maxHistorySize)
        /\ IF emitted'.count = emitted.count + 1
           THEN LET sample == [ price |-> candle'.currentPrice,
                                time  |-> now ]
                IN  priceHistory' =
                       IF Len(priceHistory) < maxHistorySize
                       THEN Append(priceHistory, sample)
                       ELSE Append(Tail(priceHistory), sample)
           ELSE priceHistory' = priceHistory ]_vars

\* the history is full, ticks have evicted the two oldest samples of the
\* initial history, and the last three samples are the ticks' in their order
C15_Witness ==
    /\ emitted.count = maxHistorySize + 2
    /\ Len(priceHistory) = maxHistorySize
    /\ priceHistory[1] = NearFullHistory[3]
    /\ priceHistory[maxHistorySize - 3] = NearFullHistory[maxHistorySize - 1]
    /\ priceHistory[maxHistorySize - 2].price = 50100
    /\ priceHistory[maxHistorySize - 1].price = 49900
    /\ priceHistory[maxHistorySize].price = 50000
    /\ priceHistory[maxHistorySize].time > priceHistory[maxHistorySize - 2].time

\* C16: hasData() is true iff the open and the current price are both
\* positive: false before the first tick, and after it decided by the most
\* recent tick alone (a tick with prices 0 turns it false again).  Stated
\* on its two callers: an evaluation past the cooldown goes on iff the last
\* tick's prices are positive, and a pass of waitForInitialData before
\* maxWait ends the wait iff they are and a venue price is known.
C16_HasDataLatestTick ==
    [][ LET positive ==
                /\ emitted.count > 0
                /\ emitted.message.o > 0
                /\ emitted.message.c > 0
            marketData ==
                \E k \in DOMAIN polymarketPrices :
                    polymarketPrices[k] # ABSENT
            waitPass ==
                /\ startPc \in {"pmConnect", "waiting"}
                /\ startPc' \in {"waiting", "done"}
                /\ <<startPc, waitDue>> # <<startPc', waitDue'>>
                /\ waited + WaitPollMs < maxWait
        IN  /\ (LoopCalled /\ isRunning' /\ lastCheck'.outcome # "cooldown")
                  => (lastCheck'.outcome # "noData" <=> positive)
            /\ waitPass
                  => (startPc' = "done" <=> (positive /\ marketData)) ]_vars

\* the first tick carried prices 0 and the second positive ones, the wait
\* ended on them, and a later evaluation of the loop passed the data gate
C16_Witness ==
    /\ isRunning
    /\ emitted.count = 2
    /\ priceHistory[1].price = 0
    /\ emitted.message.c > 0
    /\ loopPc = "balance"
    /\ lastCheck.outcome = "pending"
    /\ now > StartNow

\* C17: for each of the three wire shapes, the price map entry of an
\* instrument is overwritten only with mid = (bid + ask) / 2 of an update
\* whose best bid and best ask are both present and positive; any other
\* update leaves the map unchanged.
C17_OnlyPositiveMid ==
    [][ \A k \in DOMAIN polymarketPrices :
          polymarketPrices'[k] # polymarketPrices[k] =>
             \E msg \in VenueMessages :
                \E i \in DOMAIN msg.items :
                   /\ msg.items[i].asset_id = k
                   /\ msg.items[i].bid > 0
                   /\ msg.items[i].ask > 0
                   /\ polymarketPrices'[k] =
                         (msg.items[i].bid + msg.items[i].ask) \div 2 ]_vars

\* C18: after a successful entry the take-profit order is placed at
\* min(marketPrice + profitAmount, 0.99) and the stop-loss order at
\* max(marketPrice - lossAmount, 0.01), each rounded to the 2-decimal
\* tick, both with the entry order's quantity, as sells against the buy
\* entry, on the entry's instrument.  Stated on the orders of the latest
\* executeTrade call, whose opportunity exec still holds.
C18_BracketPrices ==
    \A i \in DOMAIN orders : \A j \in DOMAIN orders :
        (/\ orders[i].call = exec.calls
         /\ orders[j].call = exec.calls
         /\ orders[i].role = "entry"
         /\ orders[j].role \in {"tp", "sl"}) =>
            LET marketPrice == exec.opportunity.polymarketPrice
                raw == IF orders[j].role = "tp"
                       THEN Min2(marketPrice + 10 * (ONE \div 1000),
                                 99 * (ONE \div 100))
                       ELSE Max2(marketPrice - 5 * (ONE \div 1000),
                                 ONE \div 100)
            IN  /\ orders[i].status = "ok"
                /\ orders[i].side = "BUY"
                /\ orders[j].side = "SELL"
                /\ orders[j].tokenID = orders[i].tokenID
                /\ orders[j].tokenID = exec.opportunity.tokenId
                /\ orders[j].size = orders[i].size
                /\ orders[j].price % (ONE \div 100) = 0
                /\ 2 * (orders[j].price - raw) = ONE \div 100
                      \/ 2 * Abs(orders[j].price - raw) < ONE \div 100

\* DOWN was bought at a market price of half a cent: the stop-loss order
\* stands at the floor of 0.01 and the take-profit order at 0.02
C18_Witness ==
    /\ exec.opportunity.tokenType = "DOWN"
    /\ exec.opportunity.polymarketPrice = 5 * (ONE \div 1000)
    /\ \E i \in DOMAIN orders : \E j \in DOMAIN orders :
          /\ orders[i].call = exec.calls /\ orders[j].call = exec.calls
          /\ orders[i].role = "tp" /\ orders[i].price = 2 * (ONE \div 100)
          /\ orders[j].role = "sl" /\ orders[j].price = ONE \div 100
          /\ orders[j].size = 500

\* C19 (original statement, the part about the quantity): every Position in
\* the ledger records the sized quantity floor(tradeBudget / entryPrice)
\* that was ordered.
C19_RecordsQuantity ==
    \A n \in DOMAIN activeTrades :
        activeTrades[n].amount = orders[activeTrades[n].buyOrderId].size * ONE

\* C19 (amended): every Position appended to the ledger records the side
\* and the identifier of the opportunity's instrument, the identifiers of
\* the entry, take-profit and stop-loss orders of one executeTrade call,
\* the prices of those three orders, and in `amount` the configured trade
\* budget in dollars (the quantity floor(budget / entryPrice) is in the
\* orders only); positions are never removed or changed, and their status
\* is 'active'.
C19_LedgerRecords ==
    [][ /\ Len(activeTrades') >= Len(activeTrades)
        /\ SubSeq(activeTrades', 1, Len(activeTrades)) = activeTrades
        /\ \A n \in DOMAIN activeTrades' :
              LET p     == activeTrades'[n]
                  entry == orders'[p.buyOrderId]
                  tp    == orders'[p.takeProfitOrderId]
                  sl    == orders'[p.stopLossOrderId]
              IN  /\ entry.role = "entry" /\ tp.role = "tp" /\ sl.role = "sl"
                  /\ tp.call = entry.call /\ sl.call = entry.call
                  /\ p.tokenId = entry.tokenID
                  /\ p.tokenType = (IF p.tokenId = tokenIdUp THEN "UP"
                                                             ELSE "DOWN")
                  /\ p.buyPrice = entry.price
                  /\ p.targetPrice = tp.price
                  /\ p.stopPrice = sl.price
                  /\ p.amount = tradeAmount
                  /\ entry.size = tradeAmount \div entry.price
                  /\ p.status = "active" ]_vars

\* the ledger holds two positions: UP, and after the cooldown DOWN bought at
\* half a cent, appended behind it
C19_Witness ==
    /\ Len(activeTrades) = 2
    /\ activeTrades[1].tokenType = "UP"
    /\ activeTrades[2].tokenType = "DOWN"
    /\ activeTrades[2].timestamp > activeTrades[1].timestamp
    /\ activeTrades[1].amount = 5 * ONE
    /\ orders[activeTrades[1].buyOrderId].size = 10

\* C20: runtime failures do not stop the decision loop.  A failed balance
\* check or a failed order placement leaves the running flag as it is and
\* schedules the next cycle one second later; the pending cycle is not
\* started before it is due; and while the running flag is true, an
\* iteration that has ended (its timer is pending, due within the clock's
\* bound) is eventually followed by the start of another evaluation.
C20_LoopGoesOn ==
    /\ [][ LET failed ==
                  \/ loopPc = "balance" /\ lastCheck'.outcome = "error"
                  \/ /\ loopPc \in {"buy", "tp", "sl"}
                     /\ \E i \in DOMAIN orders :
                           /\ orders[i].status = "pending"
                           /\ orders'[i].status = "failed"
           IN  /\ failed => /\ isRunning' = isRunning
                            /\ loopPc' = "timer"
                            /\ loopDue' = now + 1000
               /\ (loopPc = "timer"
                   /\ <<loopPc', loopDue'>> # <<loopPc, loopDue>>)
                     => now >= loopDue ]_vars
    /\ \A d \in { StartNow + k * ClockStep : k \in 0..MaxTradeClockSteps } :
          (isRunning /\ loopPc = "timer" /\ loopDue = d)
             ~> \/ ~isRunning
                \/ loopPc = "balance"
                \/ loopPc = "timer" /\ loopDue > d

\* an entry order failed, the loop went on, and the evaluation of a later
\* cycle was started (and turned away by the cooldown) with the flag true
C20_Witness ==
    /\ isRunning
    /\ exec.outcome = "failed"
    /\ \E i \in DOMAIN orders :
          orders[i].role = "entry" /\ orders[i].status = "failed"
    /\ lastCheck.outcome = "cooldown"
    /\ now >= exec.start + 2 * LoopInterval

\* C21: startup failures abort startup entirely: once the initial balance
\* check was insufficient or no market was found, start() has failed with
\* no feed connection opened, the running flag is false, and no evaluation
\* of the detector and no order placement has happened, then or later.
C21_StartupAborted ==
    startPc \in {"insufficient", "noMarket"} =>
        /\ sockets = <<>>
        /\ ws = 0
        /\ polymarketWs = 0
        /\ timers = <<>>
        /\ ~oracleIsRunning
        /\ ~isRunning
        /\ loopPc = "off"
        /\ lastCheck = NoCheck
        /\ exec = NoExec
        /\ orders = <<>>
        /\ activeTrades = <<>>

\* no market was found, and three seconds later nothing has happened
C21_Witness ==
    /\ startPc = "noMarket"
    /\ tokenIdUp = "null"
    /\ now >= StartNow + 3 * ClockStep

\* C22: the decision loop is never re-entered.  An evaluation is in progress
\* exactly while the loop is suspended in its balance check, an execution
\* exactly while it is suspended inside executeTrade; the two never
\* overlap, the timer of the next cycle is pending only when neither is in
\* progress, and at most one order, of the one executeTrade call in
\* flight, is awaiting the venue's answer, however many feed messages
\* arrive and however long the answer takes.
C22_NoReentry ==
    LET pending == { i \in DOMAIN orders : orders[i].status = "pending" }
    IN  /\ lastCheck.outcome = "pending" <=> loopPc = "balance"
        /\ exec.active <=> loopPc \in {"buy", "sleep", "tp", "sl"}
        /\ exec.outcome = "running" <=> exec.active
        /\ ~(lastCheck.outcome = "pending" /\ exec.active)
        /\ loopPc \in {"timer", "ended", "off"} =>
              (~exec.active /\ lastCheck.outcome # "pending" /\ pending = {})
        /\ Cardinality(pending) <= 1
        /\ \A i \in pending :
              /\ orders[i].call = exec.calls
              /\ loopPc = (IF orders[i].role = "entry" THEN "buy"
                                                       ELSE orders[i].role)

\* the take-profit order has been awaiting its answer while both venue
\* updates arrived and the clock reached five seconds past the start of
\* the execution: no other evaluation has started
C22_Witness ==
    /\ loopPc = "tp"
    /\ exec.active
    /\ messageCount = 1 + MaxTradeMessages
    /\ now >= exec.start + 5 * ClockStep
    /\ lastCheck.outcome \in {"UP", "DOWN"}
    /\ Len(orders) = 2

\* C23: after stop() has been called no trade execution is started:
\* executeTrade is not entered and no entry order is placed, also when
\* stop() came while the evaluation was suspended in its balance check.
C23_NoExecutionAfterStop ==
    [][ stopped =>
          /\ exec'.calls = exec.calls
          /\ \A i \in DOMAIN orders' :
                (i \notin DOMAIN orders) => orders'[i].role # "entry" ]_vars

\* C24: when the venue connection closes after it was opened and before
\* stop() is called, the startup wait for initial data included, a
\* reconnect is scheduled (the first half of the claim: without the
\* scheduled attempt the feed is never connected again).
C24_VenueReconnectScheduled ==
    [][ \A id \in DOMAIN sockets :
          (/\ sockets[id].feed = "polymarket"
           /\ sockets[id].state = "open"
           /\ sockets'[id].state = "closed"
           /\ ~stopped)
          => /\ Len(timers') = Len(timers) + 1
             /\ timers'[Len(timers')].feed = "polymarket" ]_vars

\* C25: the oracle has at most one reference-feed connection open or being
\* opened at any time, over any sequence of start(), stop(), close events
\* and reconnect timers, a start() that follows a stop() before the old
\* connection's close event or a pending timer was delivered included.
C25_OneOracleConnection ==
    Cardinality({ id \in DOMAIN sockets :
                    /\ sockets[id].feed = "binance"
                    /\ sockets[id].state \in {"connecting", "open"} }) <= 1

\* C26: the oracle probabilities the detector reads always equal probUp and
\* probDown of the snapshot pushed for the most recently ingested tick
\* (both 0 before the first tick); hence whenever hasData() is true they
\* lie in [0.01, 0.99] and sum to 1.
C26_OraclePricesFollowSnapshot ==
    /\ emitted.count = 0 => oraclePrices = [ UP |-> 0, DOWN |-> 0 ]
    /\ emitted.count > 0 =>
          oraclePrices = [ UP   |-> emitted.snapshot.probUp,
                           DOWN |-> emitted.snapshot.probDown ]
    /\ (candle.openPrice > 0 /\ candle.currentPrice > 0) =>
          /\ oraclePrices.UP # NaN
          /\ oraclePrices.DOWN # NaN
          /\ oraclePrices.UP >= ONE \div 100
          /\ oraclePrices.UP <= 99 * (ONE \div 100)
          /\ oraclePrices.DOWN >= ONE \div 100
          /\ oraclePrices.DOWN <= 99 * (ONE \div 100)
          /\ oraclePrices.UP + oraclePrices.DOWN = ONE

\* C27: with the default configuration and tracked mid-prices at or above
\* 0.01, every returned opportunity has marketPrice <= 0.99 - threshold,
\* and every Position recorded satisfies stopPrice <= buyPrice <=
\* targetPrice with all three prices within [0.01, 0.99].
C27_PriceBand ==
    /\ exec.calls > 0 =>
          /\ exec.opportunity.polymarketPrice >= ONE \div 100
          /\ exec.opportunity.polymarketPrice
                <= 99 * (ONE \div 100) - 15 * (ONE \div 1000)
    /\ \A n \in DOMAIN activeTrades :
          /\ activeTrades[n].stopPrice >= ONE \div 100
          /\ activeTrades[n].stopPrice <= activeTrades[n].buyPrice
          /\ activeTrades[n].buyPrice <= activeTrades[n].targetPrice
          /\ activeTrades[n].targetPrice <= 99 * (ONE \div 100)

\* UP was bought at the highest market price that qualifies, 0.975 against
\* an oracle probability of 0.99: entry 0.98, target 0.99, stop 0.97
C27_Witness ==
    /\ exec.opportunity.polymarketPrice = 975 * (ONE \div 1000)
    /\ exec.opportunity.oraclePrice = 99 * (ONE \div 100)
    /\ Len(activeTrades) = 1
    /\ activeTrades[1].buyPrice = 98 * (ONE \div 100)
    /\ activeTrades[1].targetPrice = 99 * (ONE \div 100)
    /\ activeTrades[1].stopPrice = 97 * (ONE \div 100)

\* C28: single writers.  An oracle tick, a venue update, a Detector
\* evaluation that starts no execution and the monitoring timer leave the
\* cooldown timestamp and the positions ledger unchanged: only executeTrade
\* stamps the cooldown (when it is entered) and appends a position (when
\* its stop-loss order is answered).  A venue update leaves the candle and
\* the price history unchanged; an oracle tick leaves the market price map
\* unchanged.
C28_SingleWriter ==
    [][ /\ emitted.messages' # emitted.messages =>
              /\ lastTradeTime' = lastTradeTime
              /\ activeTrades' = activeTrades
              /\ polymarketPrices' = polymarketPrices
        /\ messageCount' # messageCount =>
              /\ lastTradeTime' = lastTradeTime
              /\ activeTrades' = activeTrades
              /\ candle' = candle
              /\ priceHistory' = priceHistory
        /\ (lastCheck' # lastCheck /\ exec'.calls = exec.calls) =>
              /\ lastTradeTime' = lastTradeTime
              /\ activeTrades' = activeTrades
        /\ (monitorChecks' # monitorChecks
               \/ lastBalanceCheck' # lastBalanceCheck) =>
              /\ lastTradeTime' = lastTradeTime
              /\ activeTrades' = activeTrades
        /\ lastTradeTime' # lastTradeTime =>
              /\ exec'.calls = exec.calls + 1
              /\ lastTradeTime' = now
        /\ activeTrades' # activeTrades =>
              /\ loopPc = "sl"
              /\ exec.active /\ exec'.calls = exec.calls
              /\ Len(activeTrades') = Len(activeTrades) + 1
              /\ SubSeq(activeTrades', 1, Len(activeTrades)) = activeTrades
      ]_vars

\* a position is in the ledger and the cooldown is stamped; an oracle tick
\* and the venue's updates were handled, the monitoring timer checked the
\* balance after the trade had started, and the evaluation after the trade
\* returned nothing
C28_Witness ==
    /\ Len(activeTrades) = 1
    /\ lastTradeTime = exec.start
    /\ ~exec.active
    /\ emitted.count = 1 + MaxBandTicks
    /\ messageCount = 1 + MaxBandMessages
    /\ lastCheck.outcome = "cooldown"
    /\ lastBalanceCheck > lastTradeTime
    /\ monitorChecks = {}

=============================================================================
